---- MODULE Spec2Model ----
(***************************************************************************)
(* The CRM server's entity routes as a state machine over the store.       *)
(*                                                                         *)
(* The store's collections are the variables users, leads, customers,     *)
(* tasks and activity.  Every request is carried by a slot of reqs: the    *)
(* handlers are async functions, so a request advances one store           *)
(* operation at a time (each await is a point where other requests run).   *)
(* An action is one store operation together with the handler code that    *)
(* runs, without suspension, on its result.                                *)
(***************************************************************************)
EXTENDS Integers, Sequences, FiniteSets, TLC

VARIABLES users, leads, customers, tasks, activity, oid, reqs

vars == <<users, leads, customers, tasks, activity, oid, reqs>>

store == <<users, leads, customers, tasks, activity>>

(***************************************************************************)
(* Bounds of the model.                                                    *)
(***************************************************************************)
MaxLeads == 2

MaxCustomers == 2

MaxTasks == 2

MaxActivity == 3

(***************************************************************************)
(* Values.                                                                 *)
(***************************************************************************)
UserIds == {"admin1", "agent1", "agent2"}

NoUser == ""

NoId == 0

NoDate == 0

Dates == {1}

NoBody == [none |-> TRUE]

NoDoc == [none |-> TRUE]

NoLog == [none |-> TRUE]

LeadStatuses == {"New", "In Progress", "Closed Won", "Closed Lost"}

\* express-validator: isEmail() accepts these raw addresses
isEmail(e) == e \in {"a@x.com", "A@x.com", "b@x.com"}

\* express-validator: normalizeEmail() lower-cases the address
normalizeEmail(e) == IF e = "A@x.com" THEN "a@x.com" ELSE e

\* String.prototype.trim on the strings the model uses
trim(s) == IF s = " " THEN "" ELSE s

\* String length of the strings the model uses
strlen(s) == CASE s = "" -> 0
               [] s = " " -> 1
               [] s = "secret" -> 6
               [] OTHER -> 4

\* body(field).trim().isLength({ min: 1, max: n })
isLength(s, min, max) == strlen(trim(s)) >= min /\ strlen(trim(s)) <= max

Has(body, f) == f \in DOMAIN body

\* Object.assign(doc, body): every own key of body that is a schema path
\* overwrites the document's value, the others keep theirs
ObjectAssign(doc, body) ==
  [f \in DOMAIN doc |-> IF f \in DOMAIN body THEN body[f] ELSE doc[f]]

\* Document.save() of a loaded document: an update of the modified paths only
\* ($set of the paths whose value differs from the loaded one)
SaveModified(stored, loaded, edited) ==
  [f \in DOMAIN stored |-> IF edited[f] # loaded[f] THEN edited[f] ELSE stored[f]]

(***************************************************************************)
(* Request slots.  reqs[p] is the request slot p carries: where its        *)
(* handler stands (pc), the route, req.user as authMiddleware attached it, *)
(* req.params.id (id for a record, target for a user), req.body, the       *)
(* document the handler loaded, and, once answered, the response's status, *)
(* message and, for a list, data (the ids of the records returned) and the *)
(* pagination's total and pages; token                                     *)
(* is the user the bearer token was issued to, on the routes that keep it; *)
(* stats is what the dashboard page computed from its fetches.             *)
(***************************************************************************)
Idle ==
  [pc |-> "idle", route |-> "", user |-> NoUser, role |-> "", id |-> NoId,
   target |-> NoUser, body |-> NoBody, doc |-> NoDoc, aux |-> NoId, log |-> NoLog,
   status |-> 0, msg |-> "", data |-> << >>, total |-> 0, pages |-> 0,
   token |-> NoUser, stats |-> NoDoc]

\* res.status(status).json({ success, message | errors }): the request is answered
Answered(r, status, msg) ==
  [Idle EXCEPT !.pc = "done", !.route = r.route, !.id = r.id, !.target = r.target,
               !.status = status, !.msg = msg]

Respond(p, status, msg) ==
  reqs' = [reqs EXCEPT ![p] = Answered(reqs[p], status, msg)]

\* requests admitted and not yet answered
InFlight == {q \in DOMAIN reqs : reqs[q].pc \notin {"idle", "done"}}

InFlightOn(route) == {q \in InFlight : reqs[q].route = route}

\* the handler of `route` stands at `pc` in slot p
At(p, route, pc) == reqs[p].route = route /\ reqs[p].pc = pc

\* the ObjectId a new document of collection c gets
NewId(c) == oid[c] + 1

(***************************************************************************)
(* middleware/auth                                                         *)
(***************************************************************************)
\* the routes whose :id names a User
UserRoutes == {"PATCH /users/:id", "DELETE /users/:id"}

\* a request as it arrives: route, req.params.id, req.body
Arrived(route, id, body) ==
  [Idle EXCEPT !.route = route, !.body = body,
               !.id = IF route \in UserRoutes THEN NoId ELSE id,
               !.target = IF route \in UserRoutes THEN id ELSE NoUser]

\* ActiveUser, forgetting the isActive test
ActiveUser_Exists(tokenUser) == tokenUser \in DOMAIN users

\* User.findById(decoded.userId) finds a user and the user is active
ActiveUser(tokenUser) == tokenUser \in DOMAIN users /\ users[tokenUser].isActive

\* authMiddleware: the request must bear a token (NoUser stands for a
\* request without one) and the token's userId must resolve to an active
\* User, whose document becomes req.user.  A request arrives with its route,
\* params.id and body.
authMiddleware(p, tokenUser, route, id, body) ==
  /\ reqs[p].pc \in {"idle", "done"}
  /\ IF tokenUser = NoUser
       THEN reqs' = [reqs EXCEPT ![p] =
              Answered(Arrived(route, id, body), 401, "Access token required")]
     ELSE IF ActiveUser(tokenUser)
       THEN reqs' = [reqs EXCEPT ![p] =
              [Arrived(route, id, body) EXCEPT !.pc = "handler", !.user = tokenUser,
                                               !.role = users[tokenUser].role,
                                               !.token = tokenUser]]
       ELSE reqs' = [reqs EXCEPT ![p] =
              [Answered(Arrived(route, id, body), 401, "Invalid or inactive user")
                 EXCEPT !.token = tokenUser]]
  /\ UNCHANGED <<users, leads, customers, tasks, activity, oid>>

\* Admission of a request to the model: the log has room for the entries of
\* the requests in flight and of this one, and a creating request has an id
\* left in its collection.
Admit(route, logCap) ==
  /\ Len(activity) + Cardinality(InFlight) < logCap
  /\ route = "POST /leads" => oid.Lead + Cardinality(InFlightOn(route)) < MaxLeads
  /\ route \in {"POST /customers", "POST /leads/:id/convert"} =>
       oid.Customer + Cardinality(InFlightOn("POST /customers"))
                    + Cardinality(InFlightOn("POST /leads/:id/convert")) < MaxCustomers
  /\ route = "POST /tasks" => oid.Task + Cardinality(InFlightOn(route)) < MaxTasks

\* a client sends a request
Request(p, tokenUser, route, id, body, logCap) ==
  Admit(route, logCap) /\ authMiddleware(p, tokenUser, route, id, body)

\* requireRole(roles): requireAdmin and requireAgentOrAdmin
requireRole(roles, r) == r.role \in roles

requireAgentOrAdmin(r) == requireRole({"admin", "agent"}, r)

requireAdmin(r) == requireRole({"admin"}, r)

(***************************************************************************)
(* models/Activity and the handlers' closing Activity.create               *)
(***************************************************************************)
\* ActivityEntry, leaving the caller out
ActivityEntry_Anonymous(user, action, entityType, entityId, details) ==
  [user |-> NoUser, action |-> action, entityType |-> entityType,
   entityId |-> entityId, details |-> details]

\* Activity.create({ user, action, entityType, entityId, details })
ActivityEntry(user, action, entityType, entityId, details) ==
  [user |-> user, action |-> action, entityType |-> entityType,
   entityId |-> entityId, details |-> details]

\* ActivityCreate, writing the entry over the log
ActivityCreate_Overwrite(p) ==
  /\ reqs[p].pc = "activity"
  /\ activity' = <<reqs[p].log>>
  /\ Respond(p, reqs[p].status, reqs[p].msg)
  /\ UNCHANGED <<users, leads, customers, tasks, oid>>

\* the handler's last await: Activity.create(...), then the success response
ActivityCreate(p) ==
  /\ reqs[p].pc = "activity"
  /\ activity' = Append(activity, reqs[p].log)
  /\ Respond(p, reqs[p].status, reqs[p].msg)
  /\ UNCHANGED <<users, leads, customers, tasks, oid>>

\* the slot after the handler's primary write, about to log `entry`
ToActivity(r, status, msg, entry) ==
  [r EXCEPT !.pc = "activity", !.status = status, !.msg = msg, !.log = entry,
            !.doc = NoDoc, !.body = NoBody]

\* middleware/errorHandler, reached through next(error): the request fails
\* with an internal error
NextError(p) == Respond(p, 500, "Internal error")

\* NotOwn, forgetting the ownership test
NotOwn_Never(r, owner) == FALSE

\* the agent caller of request r is not the user `owner`
NotOwn(r, owner) == r.role = "agent" /\ owner # r.user

(***************************************************************************)
(* models/Lead and routes/leads                                            *)
(***************************************************************************)
\* schema setter of email (lowercase: true)
toLowerCase(e) == normalizeEmail(e)

\* new Lead({ name, email, phone, source, notes, assignedAgent }) with the
\* schema's defaults
NewLead(name, email, phone, agent) ==
  [name |-> name, email |-> toLowerCase(email), phone |-> phone, status |-> "New",
   assignedAgent |-> agent, isArchived |-> FALSE,
   convertedToCustomer |-> NoId, convertedAt |-> NoDate]

\* the validation chain's sanitizers rewrite req.body (normalizeEmail)
Sanitized(body) ==
  IF Has(body, "email") THEN [body EXCEPT !.email = normalizeEmail(@)] ELSE body

\* POST /leads validation chain
LeadCreateValid(body) ==
  /\ Has(body, "name") /\ isLength(body.name, 1, 100)
  /\ Has(body, "email") /\ isEmail(body.email)
  /\ Has(body, "phone") /\ isLength(body.phone, 1, 20)

\* PATCH /leads/:id validation chain (every field optional)
LeadUpdateValid(body) ==
  /\ Has(body, "name") => isLength(body.name, 1, 100)
  /\ Has(body, "email") => isEmail(body.email)
  /\ Has(body, "phone") => isLength(body.phone, 1, 20)
  /\ Has(body, "status") => body.status \in LeadStatuses

\* POST /leads/:id/convert validation chain
LeadConvertValid(body) == Has(body, "company") /\ isLength(body.company, 1, 100)

\* LeadFindOneByEmail, looking among the archived leads only
LeadFindOneByEmail_Archived(email, except) ==
  {i \in DOMAIN leads : i # except /\ leads[i].email = email /\ leads[i].isArchived}

\* Lead.findOne({ email, isArchived: false, _id: { $ne: except } })
LeadFindOneByEmail(email, except) ==
  {i \in DOMAIN leads : i # except /\ leads[i].email = email /\ ~leads[i].isArchived}

\* Lead.findById(id)
LeadFindById(id) == id \in DOMAIN leads

\* POST /leads up to the result of Lead.findOne
LeadCreate_findOne(p) ==
  LET r == reqs[p] body == Sanitized(r.body) IN
  /\ At(p, "POST /leads", "handler")
  /\ IF ~requireAgentOrAdmin(r) THEN Respond(p, 403, "Insufficient permissions")
     ELSE IF ~LeadCreateValid(r.body) THEN Respond(p, 400, "errors")
     ELSE IF LeadFindOneByEmail(body.email, NoId) # {}
       THEN Respond(p, 400, "Lead with this email already exists")
     ELSE reqs' = [reqs EXCEPT ![p] = [r EXCEPT !.pc = "save", !.body = body]]
  /\ UNCHANGED <<users, leads, customers, tasks, activity, oid>>

\* POST /leads: lead.save()
LeadCreate_save(p) ==
  LET r == reqs[p] id == NewId("Lead") IN
  /\ At(p, "POST /leads", "save")
  /\ leads' = (id :> NewLead(r.body.name, r.body.email, r.body.phone, r.user)) @@ leads
  /\ oid' = [oid EXCEPT !.Lead = id]
  /\ reqs' = [reqs EXCEPT ![p] =
       ToActivity([r EXCEPT !.aux = id], 201, "Lead created successfully",
                  ActivityEntry(r.user, "Lead Created", "Lead", id, NoBody))]
  /\ UNCHANGED <<users, customers, tasks, activity>>

\* GET /leads/:id
LeadGet(p) ==
  LET r == reqs[p] IN
  /\ At(p, "GET /leads/:id", "handler")
  /\ IF ~requireAgentOrAdmin(r) THEN Respond(p, 403, "Insufficient permissions")
     ELSE IF ~LeadFindById(r.id) THEN Respond(p, 404, "Lead not found")
     ELSE IF NotOwn(r, leads[r.id].assignedAgent) THEN Respond(p, 403, "Access denied")
     ELSE Respond(p, 200, "")
  /\ UNCHANGED <<users, leads, customers, tasks, activity, oid>>

\* PATCH /leads/:id up to the result of Lead.findById
LeadUpdate_findById(p) ==
  LET r == reqs[p] body == Sanitized(r.body) IN
  /\ At(p, "PATCH /leads/:id", "handler")
  /\ IF ~requireAgentOrAdmin(r) THEN Respond(p, 403, "Insufficient permissions")
     ELSE IF ~LeadUpdateValid(r.body) THEN Respond(p, 400, "errors")
     ELSE IF ~LeadFindById(r.id) THEN Respond(p, 404, "Lead not found")
     ELSE IF NotOwn(r, leads[r.id].assignedAgent) THEN Respond(p, 403, "Access denied")
     ELSE reqs' = [reqs EXCEPT ![p] =
            [r EXCEPT !.pc = IF Has(body, "email") /\ body.email # leads[r.id].email
                               THEN "findOne" ELSE "save",
                      !.body = body, !.doc = leads[r.id]]]
  /\ UNCHANGED <<users, leads, customers, tasks, activity, oid>>

\* PATCH /leads/:id: the email changes, Lead.findOne looks for a conflict
LeadUpdate_findOne(p) ==
  LET r == reqs[p] IN
  /\ At(p, "PATCH /leads/:id", "findOne")
  /\ IF LeadFindOneByEmail(r.body.email, r.id) # {}
       THEN Respond(p, 400, "Lead with this email already exists")
       ELSE reqs' = [reqs EXCEPT ![p].pc = "save"]
  /\ UNCHANGED <<users, leads, customers, tasks, activity, oid>>

\* schema setters applied by Object.assign(lead, req.body)
LeadAssign(doc, body) ==
  LET d == ObjectAssign(doc, body) IN [d EXCEPT !.email = toLowerCase(@)]

\* PATCH /leads/:id: Object.assign(lead, req.body); lead.save()
LeadUpdate_save(p) ==
  LET r == reqs[p] IN
  /\ At(p, "PATCH /leads/:id", "save")
  /\ leads' = [leads EXCEPT ![r.id] = SaveModified(@, r.doc, LeadAssign(r.doc, r.body))]
  /\ reqs' = [reqs EXCEPT ![p] =
       ToActivity(r, 200, "Lead updated successfully",
                  ActivityEntry(r.user, "Lead Updated", "Lead", r.id,
                                [updatedFields |-> DOMAIN r.body]))]
  /\ UNCHANGED <<users, customers, tasks, activity, oid>>

\* DELETE /leads/:id up to the result of Lead.findById
LeadArchive_findById(p) ==
  LET r == reqs[p] IN
  /\ At(p, "DELETE /leads/:id", "handler")
  /\ IF ~requireAgentOrAdmin(r) THEN Respond(p, 403, "Insufficient permissions")
     ELSE IF ~LeadFindById(r.id) THEN Respond(p, 404, "Lead not found")
     ELSE IF NotOwn(r, leads[r.id].assignedAgent) THEN Respond(p, 403, "Access denied")
     ELSE reqs' = [reqs EXCEPT ![p] = [r EXCEPT !.pc = "save", !.doc = leads[r.id]]]
  /\ UNCHANGED <<users, leads, customers, tasks, activity, oid>>

\* DELETE /leads/:id: lead.isArchived = true; lead.save()
LeadArchive_save(p) ==
  LET r == reqs[p] IN
  /\ At(p, "DELETE /leads/:id", "save")
  /\ leads' = [leads EXCEPT ![r.id] =
                 SaveModified(@, r.doc, [r.doc EXCEPT !.isArchived = TRUE])]
  /\ reqs' = [reqs EXCEPT ![p] =
       ToActivity(r, 200, "Lead archived successfully",
                  ActivityEntry(r.user, "Lead Archived", "Lead", r.id, NoBody))]
  /\ UNCHANGED <<users, customers, tasks, activity, oid>>

(***************************************************************************)
(* models/Customer                                                         *)
(***************************************************************************)
\* the deals subdocuments pass the schema: title required, value required
\* and >= 0
DealsValid(deals) ==
  \A i \in 1..Len(deals) : deals[i].title # "" /\ deals[i].value >= 0

\* Customer schema validation run by customer.save()
CustomerSchemaValid(c) ==
  /\ strlen(trim(c.name)) >= 1 /\ strlen(trim(c.company)) >= 1
  /\ strlen(trim(c.phone)) >= 1
  /\ c.owner # NoUser
  /\ DealsValid(c.deals)

\* new Customer({ name, company, email, phone, tags, deals, owner, convertedFromLead })
NewCustomer(name, company, email, phone, deals, owner, fromLead) ==
  [name |-> name, company |-> trim(company), email |-> toLowerCase(email),
   phone |-> phone, deals |-> deals, owner |-> owner, notes |-> << >>,
   convertedFromLead |-> fromLead, version |-> 0]

\* Customer.findById(id)
CustomerFindById(id) == id \in DOMAIN customers

(***************************************************************************)
(* routes/leads: POST /leads/:id/convert                                   *)
(***************************************************************************)
\* Convertible, forgetting that Closed Lost is terminal too
Convertible_OnlyWon(lead) == ~(lead.status = "Closed Won")

\* the lead's status lets it be converted
Convertible(lead) == ~(lead.status = "Closed Won" \/ lead.status = "Closed Lost")

\* convert up to the result of Lead.findById
LeadConvert_findById(p) ==
  LET r == reqs[p] IN
  /\ At(p, "POST /leads/:id/convert", "handler")
  /\ IF ~requireAgentOrAdmin(r) THEN Respond(p, 403, "Insufficient permissions")
     ELSE IF ~LeadConvertValid(r.body) THEN Respond(p, 400, "errors")
     ELSE IF ~LeadFindById(r.id) THEN Respond(p, 404, "Lead not found")
     ELSE IF NotOwn(r, leads[r.id].assignedAgent) THEN Respond(p, 403, "Access denied")
     ELSE IF ~Convertible(leads[r.id]) THEN Respond(p, 400, "Cannot convert closed lead")
     ELSE reqs' = [reqs EXCEPT ![p] = [r EXCEPT !.pc = "saveCustomer", !.doc = leads[r.id]]]
  /\ UNCHANGED <<users, leads, customers, tasks, activity, oid>>

\* the Customer the convert handler builds from the loaded lead
ConvertedCustomer(r) ==
  NewCustomer(r.doc.name, r.body.company, r.doc.email, r.doc.phone,
              IF Has(r.body, "deals") THEN r.body.deals ELSE << >>, r.user, r.id)

\* LeadConvert_saveCustomer, going on to the lead without the customer
\* being stored
LeadConvert_saveCustomer_Skip(p) ==
  LET r == reqs[p] id == NewId("Customer") IN
  /\ At(p, "POST /leads/:id/convert", "saveCustomer")
  /\ oid' = [oid EXCEPT !.Customer = id]
  /\ reqs' = [reqs EXCEPT ![p] = [r EXCEPT !.pc = "saveLead", !.aux = id]]
  /\ UNCHANGED <<users, leads, customers, tasks, activity>>

\* convert: customer.save(); a schema validation error goes to next(error)
LeadConvert_saveCustomer(p) ==
  LET r == reqs[p] id == NewId("Customer") c == ConvertedCustomer(r) IN
  /\ At(p, "POST /leads/:id/convert", "saveCustomer")
  /\ IF CustomerSchemaValid(c)
       THEN /\ customers' = (id :> c) @@ customers
            /\ oid' = [oid EXCEPT !.Customer = id]
            /\ reqs' = [reqs EXCEPT ![p] = [r EXCEPT !.pc = "saveLead", !.aux = id]]
       ELSE /\ NextError(p)
            /\ UNCHANGED <<customers, oid>>
  /\ UNCHANGED <<users, leads, tasks, activity>>

\* ConvertedLead, leaving the link to the new customer out
ConvertedLead_NoLink(lead, customerId, now) ==
  [lead EXCEPT !.status = "Closed Won", !.convertedAt = now]

\* the loaded lead after the convert handler's assignments
ConvertedLead(lead, customerId, now) ==
  [lead EXCEPT !.status = "Closed Won", !.convertedToCustomer = customerId,
               !.convertedAt = now]

\* convert: lead.save()
LeadConvert_saveLead(p) ==
  LET r == reqs[p] IN
  /\ At(p, "POST /leads/:id/convert", "saveLead")
  /\ \E now \in Dates :
       leads' = [leads EXCEPT ![r.id] =
                   SaveModified(@, r.doc, ConvertedLead(r.doc, r.aux, now))]
  /\ reqs' = [reqs EXCEPT ![p] =
       ToActivity(r, 200, "Lead converted to customer successfully",
                  ActivityEntry(r.user, "Lead Converted to Customer", "Lead", r.id,
                                [customerId |-> r.aux]))]
  /\ UNCHANGED <<users, customers, tasks, activity, oid>>

(***************************************************************************)
(* routes/customers                                                        *)
(***************************************************************************)
\* POST /customers validation chain
CustomerCreateValid(body) ==
  /\ Has(body, "name") /\ isLength(body.name, 1, 100)
  /\ Has(body, "company") /\ isLength(body.company, 1, 100)
  /\ Has(body, "email") /\ isEmail(body.email)
  /\ Has(body, "phone") /\ isLength(body.phone, 1, 20)

\* PATCH /customers/:id validation chain (every field optional)
CustomerUpdateValid(body) ==
  /\ Has(body, "name") => isLength(body.name, 1, 100)
  /\ Has(body, "company") => isLength(body.company, 1, 100)
  /\ Has(body, "email") => isEmail(body.email)
  /\ Has(body, "phone") => isLength(body.phone, 1, 20)

\* NoteValid, without the chain's trim()
NoteValid_NoTrim(body) ==
  Has(body, "content") /\ strlen(body.content) >= 1 /\ strlen(body.content) <= 1000

\* POST /customers/:id/notes validation chain
NoteValid(body) == Has(body, "content") /\ isLength(body.content, 1, 1000)

\* Customer.findOne({ email, _id: { $ne: except } })
CustomerFindOneByEmail(email, except) ==
  {i \in DOMAIN customers : i # except /\ customers[i].email = email}

\* POST /customers up to the result of Customer.findOne
CustomerCreate_findOne(p) ==
  LET r == reqs[p] body == Sanitized(r.body) IN
  /\ At(p, "POST /customers", "handler")
  /\ IF ~requireAgentOrAdmin(r) THEN Respond(p, 403, "Insufficient permissions")
     ELSE IF ~CustomerCreateValid(r.body) THEN Respond(p, 400, "errors")
     ELSE IF CustomerFindOneByEmail(body.email, NoId) # {}
       THEN Respond(p, 400, "Customer with this email already exists")
     ELSE reqs' = [reqs EXCEPT ![p] = [r EXCEPT !.pc = "save", !.body = body]]
  /\ UNCHANGED <<users, leads, customers, tasks, activity, oid>>

\* the Customer the create handler builds from req.body
CreatedCustomer(r) ==
  NewCustomer(r.body.name, r.body.company, r.body.email, r.body.phone,
              IF Has(r.body, "deals") THEN r.body.deals ELSE << >>, r.user, NoId)

\* POST /customers: customer.save()
CustomerCreate_save(p) ==
  LET r == reqs[p] id == NewId("Customer") c == CreatedCustomer(r) IN
  /\ At(p, "POST /customers", "save")
  /\ IF CustomerSchemaValid(c)
       THEN /\ customers' = (id :> c) @@ customers
            /\ oid' = [oid EXCEPT !.Customer = id]
            /\ reqs' = [reqs EXCEPT ![p] =
                 ToActivity([r EXCEPT !.aux = id], 201, "Customer created successfully",
                            ActivityEntry(r.user, "Customer Created", "Customer", id, NoBody))]
       ELSE /\ NextError(p)
            /\ UNCHANGED <<customers, oid>>
  /\ UNCHANGED <<users, leads, tasks, activity>>

\* GET /customers/:id
CustomerGet(p) ==
  LET r == reqs[p] IN
  /\ At(p, "GET /customers/:id", "handler")
  /\ IF ~requireAgentOrAdmin(r) THEN Respond(p, 403, "Insufficient permissions")
     ELSE IF ~CustomerFindById(r.id) THEN Respond(p, 404, "Customer not found")
     ELSE IF NotOwn(r, customers[r.id].owner) THEN Respond(p, 403, "Access denied")
     ELSE Respond(p, 200, "")
  /\ UNCHANGED <<users, leads, customers, tasks, activity, oid>>

\* PATCH /customers/:id up to the result of Customer.findById
CustomerUpdate_findById(p) ==
  LET r == reqs[p] body == Sanitized(r.body) IN
  /\ At(p, "PATCH /customers/:id", "handler")
  /\ IF ~requireAgentOrAdmin(r) THEN Respond(p, 403, "Insufficient permissions")
     ELSE IF ~CustomerUpdateValid(r.body) THEN Respond(p, 400, "errors")
     ELSE IF ~CustomerFindById(r.id) THEN Respond(p, 404, "Customer not found")
     ELSE IF NotOwn(r, customers[r.id].owner) THEN Respond(p, 403, "Access denied")
     ELSE reqs' = [reqs EXCEPT ![p] =
            [r EXCEPT !.pc = IF Has(body, "email") /\ body.email # customers[r.id].email
                               THEN "findOne" ELSE "save",
                      !.body = body, !.doc = customers[r.id]]]
  /\ UNCHANGED <<users, leads, customers, tasks, activity, oid>>

\* PATCH /customers/:id: the email changes, Customer.findOne looks for a conflict
CustomerUpdate_findOne(p) ==
  LET r == reqs[p] IN
  /\ At(p, "PATCH /customers/:id", "findOne")
  /\ IF CustomerFindOneByEmail(r.body.email, r.id) # {}
       THEN Respond(p, 400, "Customer with this email already exists")
       ELSE reqs' = [reqs EXCEPT ![p].pc = "save"]
  /\ UNCHANGED <<users, leads, customers, tasks, activity, oid>>

\* schema setters applied by Object.assign(customer, req.body)
CustomerAssign(doc, body) ==
  LET d == ObjectAssign(doc, body) IN
    [d EXCEPT !.email = toLowerCase(@), !.company = trim(@)]

\* customer.save() of a loaded customer: the document must still exist; a
\* replaced array path (notes, deals) is written under the version the
\* document was loaded with and increments it
CustomerSaveOk(id, loaded, edited) ==
  /\ id \in DOMAIN customers
  /\ CustomerSchemaValid(edited)
  /\ (edited.notes # loaded.notes \/ edited.deals # loaded.deals)
       => customers[id].version = loaded.version

CustomerSaved(stored, loaded, edited) ==
  LET d == SaveModified(stored, loaded, edited) IN
    IF edited.notes # loaded.notes \/ edited.deals # loaded.deals
      THEN [d EXCEPT !.version = stored.version + 1] ELSE d

\* PATCH /customers/:id: Object.assign(customer, req.body); customer.save()
CustomerUpdate_save(p) ==
  LET r == reqs[p] edited == CustomerAssign(r.doc, r.body) IN
  /\ At(p, "PATCH /customers/:id", "save")
  /\ IF CustomerSaveOk(r.id, r.doc, edited)
       THEN /\ customers' = [customers EXCEPT ![r.id] = CustomerSaved(@, r.doc, edited)]
            /\ reqs' = [reqs EXCEPT ![p] =
                 ToActivity(r, 200, "Customer updated successfully",
                            ActivityEntry(r.user, "Customer Updated", "Customer", r.id,
                                          [updatedFields |-> DOMAIN r.body]))]
       ELSE /\ NextError(p)
            /\ UNCHANGED customers
  /\ UNCHANGED <<users, leads, tasks, activity, oid>>

\* DELETE /customers/:id up to the result of Customer.findById
CustomerDelete_findById(p) ==
  LET r == reqs[p] IN
  /\ At(p, "DELETE /customers/:id", "handler")
  /\ IF ~requireAgentOrAdmin(r) THEN Respond(p, 403, "Insufficient permissions")
     ELSE IF ~CustomerFindById(r.id) THEN Respond(p, 404, "Customer not found")
     ELSE IF NotOwn(r, customers[r.id].owner) THEN Respond(p, 403, "Access denied")
     ELSE reqs' = [reqs EXCEPT ![p] = [r EXCEPT !.pc = "delete", !.doc = customers[r.id]]]
  /\ UNCHANGED <<users, leads, customers, tasks, activity, oid>>

\* DELETE /customers/:id: Customer.findByIdAndDelete(req.params.id)
CustomerDelete_findByIdAndDelete(p) ==
  LET r == reqs[p] IN
  /\ At(p, "DELETE /customers/:id", "delete")
  /\ customers' = [i \in DOMAIN customers \ {r.id} |-> customers[i]]
  /\ reqs' = [reqs EXCEPT ![p] =
       ToActivity(r, 200, "Customer deleted successfully",
                  ActivityEntry(r.user, "Customer Deleted", "Customer", r.id, NoBody))]
  /\ UNCHANGED <<users, leads, tasks, activity, oid>>

\* the number of notes a customer keeps
MaxNotes == 5

\* SliceLast, keeping the first n elements instead
SliceFirst(s, n) == IF Len(s) <= n THEN s ELSE SubSeq(s, 1, n)

\* Array.prototype.slice(-n): the last n elements
SliceLast(s, n) == IF Len(s) <= n THEN s ELSE SubSeq(s, Len(s) - n + 1, Len(s))

\* the notes of the loaded customer after push and the truncation
NotesAfterPush(notes, note) ==
  LET pushed == Append(notes, note) IN
    IF Len(pushed) > MaxNotes THEN SliceLast(pushed, MaxNotes) ELSE pushed

\* POST /customers/:id/notes up to the result of Customer.findById
CustomerAddNote_findById(p) ==
  LET r == reqs[p] IN
  /\ At(p, "POST /customers/:id/notes", "handler")
  /\ IF ~requireAgentOrAdmin(r) THEN Respond(p, 403, "Insufficient permissions")
     ELSE IF ~NoteValid(r.body) THEN Respond(p, 400, "errors")
     ELSE IF ~CustomerFindById(r.id) THEN Respond(p, 404, "Customer not found")
     ELSE IF NotOwn(r, customers[r.id].owner) THEN Respond(p, 403, "Access denied")
     ELSE reqs' = [reqs EXCEPT ![p] = [r EXCEPT !.pc = "save", !.doc = customers[r.id]]]
  /\ UNCHANGED <<users, leads, customers, tasks, activity, oid>>

\* CustomerAddNote_save writing the whole loaded array back, whatever the
\* stored version: the last writer wins
CustomerAddNote_save_Overwrite(p) ==
  LET r == reqs[p]
      note(now) == [content |-> trim(r.body.content), createdBy |-> r.user,
                    createdAt |-> now]
  IN
  /\ At(p, "POST /customers/:id/notes", "save")
  /\ IF r.id \in DOMAIN customers
       THEN /\ \E now \in Dates :
                 customers' = [customers EXCEPT ![r.id] =
                   [@ EXCEPT !.notes = NotesAfterPush(r.doc.notes, note(now)),
                             !.version = @ + 1]]
            /\ reqs' = [reqs EXCEPT ![p] =
                 ToActivity(r, 200, "Note added successfully",
                            ActivityEntry(r.user, "Note Added to Customer", "Customer", r.id,
                                          [noteContent |-> trim(r.body.content)]))]
       ELSE /\ NextError(p)
            /\ UNCHANGED customers
  /\ UNCHANGED <<users, leads, tasks, activity, oid>>

\* POST /customers/:id/notes: customer.save().  A push alone is sent as an
\* atomic $push onto the stored array; once the handler has replaced the
\* array (more than MaxNotes notes) the whole array is written, under the
\* version the customer was loaded with.
CustomerAddNote_save(p) ==
  LET r == reqs[p]
      note(now) == [content |-> trim(r.body.content), createdBy |-> r.user,
                    createdAt |-> now]
      replaced == Len(r.doc.notes) + 1 > MaxNotes
  IN
  /\ At(p, "POST /customers/:id/notes", "save")
  /\ IF r.id \in DOMAIN customers /\ (replaced => customers[r.id].version = r.doc.version)
       THEN /\ \E now \in Dates :
                 customers' = [customers EXCEPT ![r.id] =
                   [@ EXCEPT !.notes = IF replaced THEN NotesAfterPush(r.doc.notes, note(now))
                                                   ELSE Append(@, note(now)),
                             !.version = @ + 1]]
            /\ reqs' = [reqs EXCEPT ![p] =
                 ToActivity(r, 200, "Note added successfully",
                            ActivityEntry(r.user, "Note Added to Customer", "Customer", r.id,
                                          [noteContent |-> trim(r.body.content)]))]
       ELSE /\ NextError(p)
            /\ UNCHANGED customers
  /\ UNCHANGED <<users, leads, tasks, activity, oid>>

(***************************************************************************)
(* models/Task and routes/tasks                                            *)
(***************************************************************************)
TaskStatuses == {"Open", "In Progress", "Done"}

\* POST /tasks validation chain
TaskCreateValid(body) ==
  /\ Has(body, "title") /\ isLength(body.title, 1, 200)
  /\ Has(body, "dueDate") /\ body.dueDate # NoDate
  /\ Has(body, "assignedTo") => body.assignedTo \in UserIds

\* PATCH /tasks/:id validation chain (every field optional)
TaskUpdateValid(body) ==
  /\ Has(body, "title") => isLength(body.title, 1, 200)
  /\ Has(body, "status") => body.status \in TaskStatuses

\* Task.findById(id)
TaskFindById(id) == id \in DOMAIN tasks

\* the agent caller of r neither owns the task nor is assigned to it
TaskNotOwn(r, task) ==
  r.role = "agent" /\ task.owner # r.user /\ task.assignedTo # r.user

\* new Task({ title, dueDate, priority, owner, assignedTo }) with the schema's defaults
NewTask(body, user) ==
  [title |-> body.title, dueDate |-> body.dueDate, status |-> "Open",
   priority |-> IF Has(body, "priority") THEN body.priority ELSE "Medium",
   owner |-> user,
   assignedTo |-> IF Has(body, "assignedTo") THEN body.assignedTo ELSE user,
   completedAt |-> NoDate]

\* POST /tasks: task.save()
TaskCreate(p) ==
  LET r == reqs[p] id == NewId("Task") IN
  /\ At(p, "POST /tasks", "handler")
  /\ IF ~requireAgentOrAdmin(r)
       THEN Respond(p, 403, "Insufficient permissions") /\ UNCHANGED <<tasks, oid>>
     ELSE IF ~TaskCreateValid(r.body)
       THEN Respond(p, 400, "errors") /\ UNCHANGED <<tasks, oid>>
     ELSE /\ tasks' = (id :> NewTask(r.body, r.user)) @@ tasks
          /\ oid' = [oid EXCEPT !.Task = id]
          /\ reqs' = [reqs EXCEPT ![p] =
               ToActivity([r EXCEPT !.aux = id], 201, "Task created successfully",
                          ActivityEntry(r.user, "Task Created", "Task", id, NoBody))]
  /\ UNCHANGED <<users, leads, customers, activity>>

\* GET /tasks/:id
TaskGet(p) ==
  LET r == reqs[p] IN
  /\ At(p, "GET /tasks/:id", "handler")
  /\ IF ~requireAgentOrAdmin(r) THEN Respond(p, 403, "Insufficient permissions")
     ELSE IF ~TaskFindById(r.id) THEN Respond(p, 404, "Task not found")
     ELSE IF TaskNotOwn(r, tasks[r.id]) THEN Respond(p, 403, "Access denied")
     ELSE Respond(p, 200, "")
  /\ UNCHANGED <<users, leads, customers, tasks, activity, oid>>

\* PATCH /tasks/:id up to the result of Task.findById
TaskUpdate_findById(p) ==
  LET r == reqs[p] IN
  /\ At(p, "PATCH /tasks/:id", "handler")
  /\ IF ~requireAgentOrAdmin(r) THEN Respond(p, 403, "Insufficient permissions")
     ELSE IF ~TaskUpdateValid(r.body) THEN Respond(p, 400, "errors")
     ELSE IF ~TaskFindById(r.id) THEN Respond(p, 404, "Task not found")
     ELSE IF TaskNotOwn(r, tasks[r.id]) THEN Respond(p, 403, "Access denied")
     ELSE reqs' = [reqs EXCEPT ![p] = [r EXCEPT !.pc = "save", !.doc = tasks[r.id]]]
  /\ UNCHANGED <<users, leads, customers, tasks, activity, oid>>

\* body with key f set to v: { ...body, [f]: v }
With(body, f, v) ==
  [g \in DOMAIN body \cup {f} |-> IF g = f THEN v ELSE body[g]]

\* TaskUpdateData, leaving completedAt to the body
TaskUpdateData_NoStamp(body, task, now) == body

\* updateData of PATCH /tasks/:id: the body, with completedAt set on the
\* transition into Done and cleared whenever the body's status is not Done
TaskUpdateData(body, task, now) ==
  IF Has(body, "status") /\ body.status = "Done" /\ task.status # "Done"
    THEN With(body, "completedAt", now)
  ELSE IF ~(Has(body, "status") /\ body.status = "Done")
    THEN With(body, "completedAt", NoDate)
  ELSE body

\* PATCH /tasks/:id: Object.assign(task, updateData); task.save()
TaskUpdate_save(p) ==
  LET r == reqs[p] IN
  /\ At(p, "PATCH /tasks/:id", "save")
  /\ IF r.id \in DOMAIN tasks
       THEN /\ \E now \in Dates :
                 tasks' = [tasks EXCEPT ![r.id] =
                   SaveModified(@, r.doc,
                                ObjectAssign(r.doc, TaskUpdateData(r.body, r.doc, now)))]
            /\ reqs' = [reqs EXCEPT ![p] =
                 ToActivity(r, 200, "Task updated successfully",
                            ActivityEntry(r.user, "Task Updated", "Task", r.id,
                                          [updatedFields |-> DOMAIN r.body]))]
       ELSE /\ NextError(p)
            /\ UNCHANGED tasks
  /\ UNCHANGED <<users, leads, customers, activity, oid>>

\* DELETE /tasks/:id up to the result of Task.findById
TaskDelete_findById(p) ==
  LET r == reqs[p] IN
  /\ At(p, "DELETE /tasks/:id", "handler")
  /\ IF ~requireAgentOrAdmin(r) THEN Respond(p, 403, "Insufficient permissions")
     ELSE IF ~TaskFindById(r.id) THEN Respond(p, 404, "Task not found")
     ELSE IF TaskNotOwn(r, tasks[r.id]) THEN Respond(p, 403, "Access denied")
     ELSE reqs' = [reqs EXCEPT ![p] = [r EXCEPT !.pc = "delete", !.doc = tasks[r.id]]]
  /\ UNCHANGED <<users, leads, customers, tasks, activity, oid>>

\* DELETE /tasks/:id: Task.findByIdAndDelete(req.params.id)
TaskDelete_findByIdAndDelete(p) ==
  LET r == reqs[p] IN
  /\ At(p, "DELETE /tasks/:id", "delete")
  /\ tasks' = [i \in DOMAIN tasks \ {r.id} |-> tasks[i]]
  /\ reqs' = [reqs EXCEPT ![p] =
       ToActivity(r, 200, "Task deleted successfully",
                  ActivityEntry(r.user, "Task Deleted", "Task", r.id, NoBody))]
  /\ UNCHANGED <<users, leads, customers, activity, oid>>

(***************************************************************************)
(* The list handlers: GET /leads, GET /customers, GET /tasks.  req.query   *)
(* travels in the slot's body.  A filter is a function from document paths *)
(* to conditions; "$or" maps to a set of alternatives.                     *)
(***************************************************************************)
\* new RegExp(pattern, 'i').test(text) on the strings the model uses
RegExpTest(pattern, text) ==
  CASE pattern = "jan" -> text \in {"Jane"}
    [] pattern = "x.com" -> text \in {"a@x.com", "A@x.com", "b@x.com"}
    [] OTHER -> FALSE

\* a value meets a condition of a filter
Cond(v, c) ==
  CASE "eq" \in DOMAIN c -> v = c.eq
    [] "ne" \in DOMAIN c -> v # c.ne
    [] "regex" \in DOMAIN c -> RegExpTest(c.regex, v)
    [] "gte" \in DOMAIN c -> v >= c.gte /\ v < c.lt
    [] "lt" \in DOMAIN c -> v < c.lt

\* a document matches a filter: every path's condition, and one
\* alternative of $or when the filter has it
Matches(doc, filter) ==
  /\ \A f \in DOMAIN filter \ {"$or"} : Cond(doc[f], filter[f])
  /\ "$or" \in DOMAIN filter =>
       \E alt \in filter["$or"] : alt.field \in DOMAIN doc /\ Cond(doc[alt.field], alt.cond)

\* Model.find(filter): the ids of the matching documents
Find(coll, filter) == {i \in DOMAIN coll : Matches(coll[i], filter)}

\* the $or of a search over the given paths
SearchOr(search, paths) == {[field |-> f, cond |-> [regex |-> search]] : f \in paths}

\* query parameter f is given (a validated parameter is never empty)
Given(query, f) == Has(query, f)

\* a search string is given and not empty
Searching(query) == Has(query, "search") /\ query.search # ""

\* LeadFilter, honouring the assignedAgent parameter for every role
LeadFilter_AnyAgent(query, user, role) ==
  LET f0 == [isArchived |-> [eq |-> FALSE]]
      f1 == IF role = "agent" THEN With(f0, "assignedAgent", [eq |-> user]) ELSE f0
      f2 == IF Given(query, "status") THEN With(f1, "status", [eq |-> query.status]) ELSE f1
      f3 == IF Given(query, "assignedAgent")
              THEN With(f2, "assignedAgent", [eq |-> query.assignedAgent]) ELSE f2
      f4 == IF Searching(query)
              THEN With(f3, "$or", SearchOr(query.search, {"name", "email", "phone", "source"}))
              ELSE f3
  IN f4

\* GET /leads: the filter built from req.query and req.user
LeadFilter(query, user, role) ==
  LET f0 == [isArchived |-> [eq |-> FALSE]]
      f1 == IF role = "agent" THEN With(f0, "assignedAgent", [eq |-> user]) ELSE f0
      f2 == IF Given(query, "status") THEN With(f1, "status", [eq |-> query.status]) ELSE f1
      f3 == IF Given(query, "assignedAgent") /\ role = "admin"
              THEN With(f2, "assignedAgent", [eq |-> query.assignedAgent]) ELSE f2
      f4 == IF Searching(query)
              THEN With(f3, "$or", SearchOr(query.search, {"name", "email", "phone", "source"}))
              ELSE f3
  IN f4

\* GET /customers: the filter built from req.query and req.user
CustomerFilter(query, user, role) ==
  LET f0 == IF role = "agent" THEN [owner |-> [eq |-> user]] ELSE << >>
      f1 == IF Given(query, "owner") /\ role = "admin"
              THEN With(f0, "owner", [eq |-> query.owner]) ELSE f0
      f2 == IF Searching(query)
              THEN With(f1, "$or", SearchOr(query.search, {"name", "company", "email", "phone"}))
              ELSE f1
  IN f2

\* GET /tasks: the filter built from req.query, req.user and the clock
TaskFilter(query, user, role, now) ==
  LET f0 == IF role = "agent"
              THEN [f \in {"$or"} |-> {[field |-> "owner", cond |-> [eq |-> user]],
                                       [field |-> "assignedTo", cond |-> [eq |-> user]]}]
              ELSE << >>
      f1 == IF Given(query, "status") THEN With(f0, "status", [eq |-> query.status]) ELSE f0
      f2 == IF Given(query, "priority")
              THEN With(f1, "priority", [eq |-> query.priority]) ELSE f1
      f3 == IF Given(query, "owner") /\ role = "admin"
              THEN With(f2, "owner", [eq |-> query.owner]) ELSE f2
      f4 == IF Given(query, "assignedTo") /\ role = "admin"
              THEN With(f3, "assignedTo", [eq |-> query.assignedTo]) ELSE f3
      f5 == IF Given(query, "dueDate")
              THEN With(f4, "dueDate", [gte |-> query.dueDate, lt |-> query.dueDate + 1])
              ELSE f4
      f6 == IF Has(query, "overdue") /\ query.overdue = "true"
              THEN With(With(f5, "dueDate", [lt |-> now]), "status", [ne |-> "Done"])
              ELSE f5
  IN f6

\* the default page size
DefaultLimit == 20

\* parseInt(req.query.page) || 1 and parseInt(req.query.limit) || 20
PageOf(query) == IF Has(query, "page") THEN query.page ELSE 1

LimitOf(query) == IF Has(query, "limit") THEN query.limit ELSE DefaultLimit

\* GET validation chains
LeadListValid(query) ==
  /\ Has(query, "page") => query.page >= 1
  /\ Has(query, "limit") => query.limit >= 1 /\ query.limit <= 100
  /\ Has(query, "status") => query.status \in LeadStatuses
  /\ Has(query, "assignedAgent") => query.assignedAgent \in UserIds

CustomerListValid(query) ==
  /\ Has(query, "page") => query.page >= 1
  /\ Has(query, "limit") => query.limit >= 1 /\ query.limit <= 100
  /\ Has(query, "owner") => query.owner \in UserIds

TaskListValid(query) ==
  /\ Has(query, "page") => query.page >= 1
  /\ Has(query, "limit") => query.limit >= 1 /\ query.limit <= 100
  /\ Has(query, "status") => query.status \in TaskStatuses
  /\ Has(query, "priority") => query.priority \in {"Low", "Medium", "High"}
  /\ Has(query, "owner") => query.owner \in UserIds
  /\ Has(query, "assignedTo") => query.assignedTo \in UserIds
  /\ Has(query, "overdue") => query.overdue \in {"true", "false"}

\* the orderings of a set of ids
Orderings(S) ==
  {seq \in [1..Cardinality(S) -> S] : \A i, j \in 1..Cardinality(S) : seq[i] = seq[j] => i = j}

\* Paged, without the skip
Paged_NoSkip(seq, query) ==
  SubSeq(seq, 1, IF LimitOf(query) < Len(seq) THEN LimitOf(query) ELSE Len(seq))

\* .skip(skip).limit(limit) of a sorted result
Paged(seq, query) ==
  LET skip == (PageOf(query) - 1) * LimitOf(query)
      last == IF skip + LimitOf(query) < Len(seq) THEN skip + LimitOf(query) ELSE Len(seq)
  IN SubSeq(seq, skip + 1, last)

\* sort({ createdAt: -1 }): ids are handed out in creation order
NewestFirst(seq) == \A i, j \in 1..Len(seq) : i < j => seq[i] > seq[j]

\* the collation order of the priority strings
PriorityRank(priority) ==
  CASE priority = "High" -> 1
    [] priority = "Low" -> 2
    [] priority = "Medium" -> 3

\* sort({ dueDate: 1, priority: -1 }); ties come in any order
ByDueDateThenPriority(seq) ==
  \A i, j \in 1..Len(seq) :
    i < j => \/ tasks[seq[i]].dueDate < tasks[seq[j]].dueDate
             \/ /\ tasks[seq[i]].dueDate = tasks[seq[j]].dueDate
                /\ PriorityRank(tasks[seq[i]].priority) >= PriorityRank(tasks[seq[j]].priority)

\* Math.ceil(total / limit)
CeilDiv(total, limit) == (total + limit - 1) \div limit

\* the answer of a list handler: 200 with the page of the sorted result and
\* pagination { total: countDocuments(filter), pages } (the slot keeps the
\* caller and the query it answered)
Listed(p, seq) ==
  reqs' = [reqs EXCEPT ![p] =
             [Answered(reqs[p], 200, "") EXCEPT !.data = Paged(seq, reqs[p].body),
                                                !.total = Len(seq),
                                                !.pages = CeilDiv(Len(seq),
                                                                  LimitOf(reqs[p].body)),
                                                !.user = reqs[p].user,
                                                !.role = reqs[p].role,
                                                !.body = reqs[p].body]]

\* GET /leads
LeadList(p) ==
  LET r == reqs[p] IN
  /\ At(p, "GET /leads", "handler")
  /\ IF ~requireAgentOrAdmin(r) THEN Respond(p, 403, "Insufficient permissions")
     ELSE IF ~LeadListValid(r.body) THEN Respond(p, 400, "errors")
     ELSE \E seq \in Orderings(Find(leads, LeadFilter(r.body, r.user, r.role))) :
            NewestFirst(seq) /\ Listed(p, seq)
  /\ UNCHANGED <<users, leads, customers, tasks, activity, oid>>

\* GET /customers
CustomerList(p) ==
  LET r == reqs[p] IN
  /\ At(p, "GET /customers", "handler")
  /\ IF ~requireAgentOrAdmin(r) THEN Respond(p, 403, "Insufficient permissions")
     ELSE IF ~CustomerListValid(r.body) THEN Respond(p, 400, "errors")
     ELSE \E seq \in Orderings(Find(customers, CustomerFilter(r.body, r.user, r.role))) :
            NewestFirst(seq) /\ Listed(p, seq)
  /\ UNCHANGED <<users, leads, customers, tasks, activity, oid>>

\* the clock of a list request (due date 1 is past, due date 2 is not)
Clock == {2}

\* GET /tasks
TaskList(p) ==
  LET r == reqs[p] IN
  /\ At(p, "GET /tasks", "handler")
  /\ IF ~requireAgentOrAdmin(r) THEN Respond(p, 403, "Insufficient permissions")
     ELSE IF ~TaskListValid(r.body) THEN Respond(p, 400, "errors")
     ELSE \E now \in Clock :
          \E seq \in Orderings(Find(tasks, TaskFilter(r.body, r.user, r.role, now))) :
            ByDueDateThenPriority(seq) /\ Listed(p, seq)
  /\ UNCHANGED <<users, leads, customers, tasks, activity, oid>>

(***************************************************************************)
(* routes/users.  A JSON value of the body's isActive is written as the    *)
(* JSON text: "false" is the boolean false, "'false'" the string "false".  *)
(***************************************************************************)
\* express-validator: isBoolean() reads the value as a string
isBoolean(v) == v \in {"true", "false", "'true'", "'false'", "'1'", "'0'"}

\* the Boolean schema type's cast of an assigned value
castBoolean(v) == v \in {"true", "'true'", "'1'"}

\* PATCH /users/:id validation chain (every field optional)
UserUpdateValid(body) ==
  /\ Has(body, "firstName") => isLength(body.firstName, 1, 50)
  /\ Has(body, "role") => body.role \in {"admin", "agent"}
  /\ Has(body, "isActive") => isBoolean(body.isActive)

\* PATCH /users/profile/me validation chain
ProfileUpdateValid(body) ==
  Has(body, "firstName") => isLength(body.firstName, 1, 50)

\* User.findById(id)
UserFindById(id) == id \in DOMAIN users

\* Object.assign(user, req.body) with the schema's casts
UserAssign(doc, body) ==
  [f \in DOMAIN doc |->
     IF f \notin DOMAIN body THEN doc[f]
     ELSE IF f = "isActive" THEN castBoolean(body[f])
     ELSE body[f]]

\* the self-deactivation guard of PATCH /users/:id
DeactivatesSelf(r) ==
  r.target = r.user /\ Has(r.body, "isActive") /\ r.body.isActive = "false"

\* PATCH /users/:id up to the result of User.findById
UserUpdate_findById(p) ==
  LET r == reqs[p] IN
  /\ At(p, "PATCH /users/:id", "handler")
  /\ IF ~requireAdmin(r) THEN Respond(p, 403, "Insufficient permissions")
     ELSE IF ~UserUpdateValid(r.body) THEN Respond(p, 400, "errors")
     ELSE IF ~UserFindById(r.target) THEN Respond(p, 404, "User not found")
     ELSE IF DeactivatesSelf(r) THEN Respond(p, 400, "Cannot deactivate your own account")
     ELSE reqs' = [reqs EXCEPT ![p] = [r EXCEPT !.pc = "save", !.doc = users[r.target]]]
  /\ UNCHANGED <<users, leads, customers, tasks, activity, oid>>

\* Object.assign(user, req.body); user.save() of the user loaded for `target`
UserSave(p, target, message, action) ==
  LET r == reqs[p] IN
  IF target \in DOMAIN users
    THEN /\ users' = [users EXCEPT ![target] =
                        SaveModified(@, r.doc, UserAssign(r.doc, r.body))]
         /\ reqs' = [reqs EXCEPT ![p] =
              ToActivity(r, 200, message,
                         ActivityEntry(r.user, action, "User", target,
                                       [updatedFields |-> DOMAIN r.body]))]
    ELSE NextError(p) /\ UNCHANGED users

\* PATCH /users/:id: Object.assign(user, req.body); user.save()
UserUpdate_save(p) ==
  /\ At(p, "PATCH /users/:id", "save")
  /\ UserSave(p, reqs[p].target, "User updated successfully", "User Updated")
  /\ UNCHANGED <<leads, customers, tasks, activity, oid>>

\* DELETE /users/:id up to the result of User.findById
UserDelete_findById(p) ==
  LET r == reqs[p] IN
  /\ At(p, "DELETE /users/:id", "handler")
  /\ IF ~requireAdmin(r) THEN Respond(p, 403, "Insufficient permissions")
     ELSE IF r.target = r.user THEN Respond(p, 400, "Cannot delete your own account")
     ELSE IF ~UserFindById(r.target) THEN Respond(p, 404, "User not found")
     ELSE reqs' = [reqs EXCEPT ![p] = [r EXCEPT !.pc = "delete", !.doc = users[r.target]]]
  /\ UNCHANGED <<users, leads, customers, tasks, activity, oid>>

\* DELETE /users/:id: User.findByIdAndDelete(req.params.id)
UserDelete_findByIdAndDelete(p) ==
  LET r == reqs[p] IN
  /\ At(p, "DELETE /users/:id", "delete")
  /\ users' = [u \in DOMAIN users \ {r.target} |-> users[u]]
  /\ reqs' = [reqs EXCEPT ![p] =
       ToActivity(r, 200, "User deleted successfully",
                  ActivityEntry(r.user, "User Deleted", "User", r.target, NoBody))]
  /\ UNCHANGED <<leads, customers, tasks, activity, oid>>

\* PATCH /users/profile/me up to the result of User.findById(req.user.id)
ProfileUpdate_findById(p) ==
  LET r == reqs[p] IN
  /\ At(p, "PATCH /users/profile/me", "handler")
  /\ IF ~ProfileUpdateValid(r.body) THEN Respond(p, 400, "errors")
     ELSE IF ~UserFindById(r.user) THEN Respond(p, 404, "User not found")
     ELSE reqs' = [reqs EXCEPT ![p] = [r EXCEPT !.pc = "save", !.doc = users[r.user]]]
  /\ UNCHANGED <<users, leads, customers, tasks, activity, oid>>

\* PATCH /users/profile/me: Object.assign(user, req.body); user.save()
ProfileUpdate_save(p) ==
  /\ At(p, "PATCH /users/profile/me", "save")
  /\ UserSave(p, reqs[p].user, "Profile updated successfully", "Profile Updated")
  /\ UNCHANGED <<leads, customers, tasks, activity, oid>>

(***************************************************************************)
(* routes/activity: GET /activity/recent                                   *)
(***************************************************************************)
\* the number of entries GET /activity/recent returns
RecentLimit == 10

\* GET /activity/recent: the positions in the log of the newest entries the
\* caller may see, newest first
ActivityRecent(p) ==
  LET r == reqs[p]
      seen == {k \in 1..Len(activity) : r.role = "agent" => activity[k].user = r.user}
  IN
  /\ At(p, "GET /activity/recent", "handler")
  /\ IF ~requireAgentOrAdmin(r) THEN Respond(p, 403, "Insufficient permissions")
     ELSE \E seq \in Orderings(seen) :
            /\ NewestFirst(seq)
            /\ reqs' = [reqs EXCEPT ![p] =
                 [Answered(r, 200, "") EXCEPT
                    !.data = SubSeq(seq, 1, IF Len(seq) < RecentLimit THEN Len(seq)
                                                                        ELSE RecentLimit)]]
  /\ UNCHANGED <<users, leads, customers, tasks, activity, oid>>

(***************************************************************************)
(* routes/auth: POST /auth/register                                        *)
(***************************************************************************)
\* app.use('/api/auth', authRoutes): the router is mounted without
\* authMiddleware, so the handler chain starts with req.user unset whatever
\* token the request bears
AuthRequest(p, tokenUser, route, body, logCap) ==
  /\ Admit(route, logCap)
  /\ reqs[p].pc \in {"idle", "done"}
  /\ reqs' = [reqs EXCEPT ![p] =
       [Arrived(route, NoId, body) EXCEPT !.pc = "handler", !.token = tokenUser]]
  /\ UNCHANGED <<users, leads, customers, tasks, activity, oid>>

\* POST /auth/register validation chain
RegisterValid(body) ==
  /\ Has(body, "email") /\ isEmail(body.email)
  /\ Has(body, "password") /\ strlen(body.password) >= 6
  /\ Has(body, "firstName") /\ isLength(body.firstName, 1, 50)
  /\ Has(body, "lastName") /\ isLength(body.lastName, 1, 50)
  /\ Has(body, "role") /\ body.role \in {"admin", "agent"}

\* User.findOne({ email })
UserFindOneByEmail(email) == {u \in DOMAIN users : users[u].email = email}

\* the _id of the user a registration creates
NewUserId == "user4"

\* new User({ email, password, firstName, lastName, role }) with the
\* schema's defaults
NewUser(body) ==
  [firstName |-> body.firstName, email |-> toLowerCase(body.email), role |-> body.role,
   isActive |-> TRUE]

\* POST /auth/register: requireAdmin, then the handler up to the result of
\* User.findOne, then user.save()
Register(p) ==
  LET r == reqs[p] body == Sanitized(r.body) IN
  /\ r.route = "POST /auth/register" /\ r.pc \in {"handler", "save"}
  /\ IF r.pc = "handler"
       THEN /\ IF r.user = NoUser THEN Respond(p, 401, "Authentication required")
               ELSE IF ~requireAdmin(r) THEN Respond(p, 403, "Insufficient permissions")
               ELSE IF ~RegisterValid(r.body) THEN Respond(p, 400, "errors")
               ELSE IF UserFindOneByEmail(body.email) # {}
                 THEN Respond(p, 400, "User with this email already exists")
               ELSE reqs' = [reqs EXCEPT ![p] = [r EXCEPT !.pc = "save", !.body = body]]
            /\ UNCHANGED users
       ELSE /\ users' = (NewUserId :> NewUser(r.body)) @@ users
            /\ reqs' = [reqs EXCEPT ![p] =
                 ToActivity(r, 201, "User created successfully",
                            ActivityEntry(r.user, "User Created", "User", NewUserId,
                                          [email |-> r.body.email, role |-> r.body.role]))]
  /\ UNCHANGED <<leads, customers, tasks, activity, oid>>

(***************************************************************************)
(* Initial store: the seeded users, no records.                            *)
(***************************************************************************)
SeedUsers ==
  [u \in UserIds |-> [firstName |-> "Ann",
                      email |-> CASE u = "admin1" -> "b@x.com"
                                  [] u = "agent1" -> "c@x.com"
                                  [] OTHER -> "d@x.com",
                      role |-> IF u = "admin1" THEN "admin" ELSE "agent",
                      isActive |-> TRUE]]

EmptyStore ==
  /\ users = SeedUsers
  /\ leads = << >>
  /\ customers = << >>
  /\ tasks = << >>
  /\ activity = << >>
  /\ oid = [Lead |-> 0, Customer |-> 0, Task |-> 0]

(***************************************************************************)
(* Lead requests, one at a time.                                           *)
(***************************************************************************)
LeadCreateBodies ==
  {[name |-> n, email |-> e, phone |-> "5550"] :
     n \in {"Jane"}, e \in {"a@x.com", "A@x.com", "b@x.com"}}

RaceCreateBodies ==
  {[name |-> "Jane", email |-> e, phone |-> "5550"] : e \in {"a@x.com", "b@x.com"}}

RaceUpdateBodies == {[email |-> "a@x.com"], [isArchived |-> FALSE]}

RaceConvertBodies == {[company |-> "Acme"]}

LeadUpdateBodies ==
  {[email |-> e] : e \in {"a@x.com", "b@x.com"}}
    \cup {[status |-> s] : s \in LeadStatuses}
    \cup {[isArchived |-> FALSE], [name |-> "Joan"], [assignedAgent |-> "agent2"]}

LeadConvertBodies ==
  {[company |-> "Acme"], [company |-> " "],
   [company |-> "Acme", deals |-> <<[title |-> "Deal", value |-> 0 - 1]>>]}

\* the requests of the lead routes a client may send
LeadRequest(p, u, cap, ids, creates, gets, updates, converts) ==
  \/ \E body \in creates : Request(p, u, "POST /leads", NoId, body, cap)
  \/ \E id \in ids, body \in gets : Request(p, u, "GET /leads/:id", id, body, cap)
  \/ \E id \in ids, body \in updates : Request(p, u, "PATCH /leads/:id", id, body, cap)
  \/ \E id \in ids, body \in converts :
       Request(p, u, "POST /leads/:id/convert", id, body, cap)
  \/ \E id \in ids, body \in gets : Request(p, u, "DELETE /leads/:id", id, body, cap)

\* the steps of the lead handlers
LeadStep(p) ==
  \/ LeadCreate_findOne(p)
  \/ LeadCreate_save(p)
  \/ LeadGet(p)
  \/ LeadUpdate_findById(p)
  \/ LeadUpdate_findOne(p)
  \/ LeadUpdate_save(p)
  \/ LeadConvert_findById(p)
  \/ LeadConvert_saveCustomer(p)
  \/ LeadConvert_saveLead(p)
  \/ LeadArchive_findById(p)
  \/ LeadArchive_save(p)
  \/ ActivityCreate(p)

\* one client: a request is answered before the next is sent
OneClient == {"p1"}

\* two clients with requests in flight at once
TwoClients == {"p1", "p2"}

InitLead == EmptyStore /\ reqs = [p \in OneClient |-> Idle]

NextLead ==
  \E p \in OneClient :
    \/ \E u \in {"admin1", "agent1"} :
         LeadRequest(p, u, MaxActivity, 1..MaxLeads, LeadCreateBodies, {NoBody},
                     LeadUpdateBodies, LeadConvertBodies)
    \/ LeadStep(p)

SpecLead == InitLead /\ [][NextLead]_vars

(***************************************************************************)
(* Lead requests of two clients at once: the handlers interleave at their  *)
(* awaits.                                                                 *)
(***************************************************************************)
InitLeadRace == EmptyStore /\ reqs = [p \in TwoClients |-> Idle]

NextLeadRace ==
  \E p \in TwoClients :
    \/ LeadRequest(p, "admin1", MaxActivity, 1..MaxLeads, RaceCreateBodies, {NoBody},
                   RaceUpdateBodies, RaceConvertBodies)
    \/ LeadStep(p)

SpecLeadRace == InitLeadRace /\ [][NextLeadRace]_vars

(***************************************************************************)
(* Customer requests and lead conversion, one request at a time.           *)
(***************************************************************************)
CustomerCreateBodies ==
  {[name |-> "Jane", company |-> "Acme", email |-> e, phone |-> "5550"] :
     e \in {"a@x.com", "A@x.com", "b@x.com"}}

CustomerUpdateBodies ==
  {[email |-> "a@x.com"], [email |-> "b@x.com"], [company |-> "Acme"]}

\* the requests of the customer routes a client may send
CustomerRequest(p, u, cap, ids, creates, updates, notes) ==
  \/ \E body \in creates : Request(p, u, "POST /customers", NoId, body, cap)
  \/ \E id \in ids : Request(p, u, "GET /customers/:id", id, NoBody, cap)
  \/ \E id \in ids, body \in updates :
       Request(p, u, "PATCH /customers/:id", id, body, cap)
  \/ \E id \in ids, body \in notes :
       Request(p, u, "POST /customers/:id/notes", id, body, cap)
  \/ \E id \in ids : Request(p, u, "DELETE /customers/:id", id, NoBody, cap)

\* the steps of the customer handlers
CustomerStep(p) ==
  \/ CustomerCreate_findOne(p)
  \/ CustomerCreate_save(p)
  \/ CustomerGet(p)
  \/ CustomerUpdate_findById(p)
  \/ CustomerUpdate_findOne(p)
  \/ CustomerUpdate_save(p)
  \/ CustomerAddNote_findById(p)
  \/ CustomerAddNote_save(p)
  \/ CustomerDelete_findById(p)
  \/ CustomerDelete_findByIdAndDelete(p)

InitCustomer == EmptyStore /\ reqs = [p \in OneClient |-> Idle]

NextCustomer ==
  \E p \in OneClient :
    \/ \E u \in {"admin1", "agent1"} :
         \/ CustomerRequest(p, u, MaxActivity, 1..MaxCustomers, CustomerCreateBodies,
                            CustomerUpdateBodies, {[content |-> "n1"]})
         \/ LeadRequest(p, u, MaxActivity, 1..MaxLeads, RaceCreateBodies, {}, {},
                        RaceConvertBodies)
    \/ CustomerStep(p)
    \/ LeadCreate_findOne(p)
    \/ LeadCreate_save(p)
    \/ LeadConvert_findById(p)
    \/ LeadConvert_saveCustomer(p)
    \/ LeadConvert_saveLead(p)
    \/ ActivityCreate(p)

SpecCustomer == InitCustomer /\ [][NextCustomer]_vars

(***************************************************************************)
(* List requests over a store drawn from a bounded set of records.         *)
(***************************************************************************)
MaxListed == 2

ListedLeads ==
  {[NewLead("Jane", "a@x.com", "5550", a) EXCEPT !.status = st[1], !.isArchived = st[2]] :
     a \in {"agent1", "agent2"},
     st \in {<<"New", FALSE>>, <<"Closed Won", FALSE>>, <<"New", TRUE>>}}

ListedCustomers ==
  {NewCustomer("Jane", "Acme", "a@x.com", "5550", << >>, o, NoId) : o \in UserIds}

ListedTasks ==
  {[NewTask([title |-> "Task", dueDate |-> k[1], priority |-> k[2], assignedTo |-> a], o)
      EXCEPT !.status = k[3]] :
     o \in {"agent1", "agent2"}, a \in {"agent1", "agent2"},
     k \in {<<1, "High", "Open">>, <<2, "Low", "Done">>}}

\* the query strings that give any combination of the parameters of `all`,
\* with or without paging
Queries(all) ==
  {[f \in D \cup P |-> all[f]] :
     D \in SUBSET (DOMAIN all \ {"page", "limit"}), P \in {{}, {"page", "limit"}}}

LeadQueries ==
  Queries([status |-> "New", assignedAgent |-> "agent2", search |-> "jan",
           page |-> 2, limit |-> 1])

CustomerQueries ==
  Queries([owner |-> "agent2", search |-> "jan", page |-> 2, limit |-> 1])

TaskQueries ==
  Queries([status |-> "Open", priority |-> "High", owner |-> "agent2",
           assignedTo |-> "agent2", dueDate |-> 1, overdue |-> "true",
           page |-> 2, limit |-> 1])

InitList ==
  /\ users = SeedUsers
  /\ activity = << >>
  /\ reqs = [p \in OneClient |-> Idle]
  /\ \/ leads \in [1..MaxListed -> ListedLeads] /\ customers = << >> /\ tasks = << >>
     \/ customers \in [1..MaxListed -> ListedCustomers] /\ leads = << >> /\ tasks = << >>
     \/ tasks \in [1..MaxListed -> ListedTasks] /\ leads = << >> /\ customers = << >>
  /\ oid = [Lead |-> Len(leads), Customer |-> Len(customers), Task |-> Len(tasks)]

\* each behaviour is one list request over the drawn store
NextList ==
  \E p \in OneClient :
    \/ \E u \in {"admin1", "agent1"} :
         /\ reqs[p].pc = "idle"
         /\ \/ \E q \in LeadQueries : Request(p, u, "GET /leads", NoId, q, 1)
            \/ \E q \in CustomerQueries : Request(p, u, "GET /customers", NoId, q, 1)
            \/ \E q \in TaskQueries : Request(p, u, "GET /tasks", NoId, q, 1)
    \/ LeadList(p)
    \/ CustomerList(p)
    \/ TaskList(p)

SpecList == InitList /\ [][NextList]_vars

(***************************************************************************)
(* Detail views and mutations of leads, customers and tasks by two agents, *)
(* one request at a time.                                                  *)
(***************************************************************************)
\* the requests of the task routes a client may send
TaskRequest(p, u, cap, ids, creates, updates) ==
  \/ \E body \in creates : Request(p, u, "POST /tasks", NoId, body, cap)
  \/ \E id \in ids : Request(p, u, "GET /tasks/:id", id, NoBody, cap)
  \/ \E id \in ids, body \in updates : Request(p, u, "PATCH /tasks/:id", id, body, cap)
  \/ \E id \in ids : Request(p, u, "DELETE /tasks/:id", id, NoBody, cap)

\* the steps of the task handlers
TaskStep(p) ==
  \/ TaskCreate(p)
  \/ TaskGet(p)
  \/ TaskUpdate_findById(p)
  \/ TaskUpdate_save(p)
  \/ TaskDelete_findById(p)
  \/ TaskDelete_findByIdAndDelete(p)

AccessLeadCreates == {[name |-> "Jane", email |-> "a@x.com", phone |-> "5550"]}

AccessLeadUpdates == {[name |-> "Joan"], [email |-> "b@x.com"], [name |-> " "]}

AccessCustomerCreates ==
  {[name |-> "Jane", company |-> "Acme", email |-> "a@x.com", phone |-> "5550"]}

AccessCustomerUpdates == {[name |-> "Joan"], [email |-> "b@x.com"], [company |-> " "]}

AccessNotes == {[content |-> "memo"], [content |-> " "]}

AccessTaskCreates ==
  {[title |-> "Task", dueDate |-> 1],
   [title |-> "Task", dueDate |-> 1, assignedTo |-> "agent2"]}

AccessTaskUpdates == {[status |-> "Done"], [title |-> " "]}

InitAccess == EmptyStore /\ reqs = [p \in OneClient |-> Idle]

NextAccess ==
  \E p \in OneClient :
    \/ \E u \in {"agent1", "agent2"} :
         \/ LeadRequest(p, u, MaxActivity, 1..MaxLeads, AccessLeadCreates,
                        {NoBody}, AccessLeadUpdates, {[company |-> "Acme"], [company |-> " "]})
         \/ CustomerRequest(p, u, MaxActivity, 1..MaxCustomers, AccessCustomerCreates,
                            AccessCustomerUpdates, AccessNotes)
         \/ TaskRequest(p, u, MaxActivity, 1..MaxTasks, AccessTaskCreates, AccessTaskUpdates)
    \/ LeadStep(p)
    \/ CustomerStep(p)
    \/ TaskStep(p)

SpecAccess == InitAccess /\ [][NextAccess]_vars

(***************************************************************************)
(* Notes of one customer, appended one request at a time.                  *)
(***************************************************************************)
MaxNoteLog == 7

InitNotes == EmptyStore /\ reqs = [p \in OneClient |-> Idle]

NextNotes ==
  \E p \in OneClient :
    \/ \E body \in AccessCustomerCreates :
         Request(p, "admin1", "POST /customers", NoId, body, MaxNoteLog)
    \/ \E body \in {[content |-> "memo"], [content |-> "call"]} :
         Request(p, "admin1", "POST /customers/:id/notes", 1, body, MaxNoteLog)
    \/ CustomerCreate_findOne(p)
    \/ CustomerCreate_save(p)
    \/ CustomerAddNote_findById(p)
    \/ CustomerAddNote_save(p)
    \/ ActivityCreate(p)

SpecNotes == InitNotes /\ [][NextNotes]_vars

(***************************************************************************)
(* Task requests, one at a time.                                           *)
(***************************************************************************)
TaskUpdateBodies == {[status |-> st] : st \in TaskStatuses} \cup {[title |-> "Plan"]}

InitTask == EmptyStore /\ reqs = [p \in OneClient |-> Idle]

NextTask ==
  \E p \in OneClient :
    \/ \E u \in {"admin1", "agent1"} :
         TaskRequest(p, u, MaxActivity, 1..MaxTasks, AccessTaskCreates, TaskUpdateBodies)
    \/ TaskStep(p)
    \/ ActivityCreate(p)

SpecTask == InitTask /\ [][NextTask]_vars

(***************************************************************************)
(* User administration and the profile route, one request at a time.       *)
(***************************************************************************)
UserUpdateBodies ==
  {[isActive |-> "false"], [isActive |-> "'false'"], [isActive |-> "true"],
   [role |-> "agent"]}

ProfileUpdateBodies ==
  {[firstName |-> "Joan"], [isActive |-> "false"], [role |-> "admin"]}

InitUser == EmptyStore /\ reqs = [p \in OneClient |-> Idle]

NextUser ==
  \E p \in OneClient :
    \/ \E u \in {"admin1", "agent1"} :
         \/ \E target \in UserIds, body \in UserUpdateBodies :
              Request(p, u, "PATCH /users/:id", target, body, MaxActivity)
         \/ \E target \in UserIds :
              Request(p, u, "DELETE /users/:id", target, NoBody, MaxActivity)
         \/ \E body \in ProfileUpdateBodies :
              Request(p, u, "PATCH /users/profile/me", NoId, body, MaxActivity)
    \/ UserUpdate_findById(p)
    \/ UserUpdate_save(p)
    \/ UserDelete_findById(p)
    \/ UserDelete_findByIdAndDelete(p)
    \/ ProfileUpdate_findById(p)
    \/ ProfileUpdate_save(p)
    \/ ActivityCreate(p)

SpecUser == InitUser /\ [][NextUser]_vars

(***************************************************************************)
(* Archiving: one admin creates, archives, updates and lists leads, one    *)
(* request at a time.                                                      *)
(***************************************************************************)
ArchiveUpdateBodies == {[isArchived |-> FALSE], [name |-> "Joan"]}

ArchiveQueries ==
  Queries([status |-> "New", search |-> "jan", assignedAgent |-> "admin1",
           page |-> 1, limit |-> 1])

\* room in the log for a create, an archive and an update before a list
ArchiveLogCap == MaxActivity + 1

InitArchive == EmptyStore /\ reqs = [p \in OneClient |-> Idle]

NextArchive ==
  \E p \in OneClient :
    \/ LeadRequest(p, "admin1", ArchiveLogCap, 1..MaxLeads, AccessLeadCreates, {NoBody},
                   ArchiveUpdateBodies, {})
    \/ \E q \in ArchiveQueries : Request(p, "admin1", "GET /leads", NoId, q, ArchiveLogCap)
    \/ LeadCreate_findOne(p)
    \/ LeadCreate_save(p)
    \/ LeadGet(p)
    \/ LeadUpdate_findById(p)
    \/ LeadUpdate_save(p)
    \/ LeadArchive_findById(p)
    \/ LeadArchive_save(p)
    \/ LeadList(p)
    \/ ActivityCreate(p)

SpecArchive == InitArchive /\ [][NextArchive]_vars

(***************************************************************************)
(* Registration next to user administration, one request at a time.        *)
(***************************************************************************)
RegisterBodies ==
  {[email |-> e, password |-> "secret", firstName |-> "Joan", lastName |-> "Dale",
    role |-> "agent"] : e \in {"a@x.com", "b@x.com"}}

InitRegister == EmptyStore /\ reqs = [p \in OneClient |-> Idle]

NextRegister ==
  \/ NextUser
  \/ \E p \in OneClient :
       \/ \E u \in {"admin1", "agent1"}, body \in RegisterBodies :
            AuthRequest(p, u, "POST /auth/register", body, MaxActivity)
       \/ Register(p)

SpecRegister == InitRegister /\ [][NextRegister]_vars

(***************************************************************************)
(* Authentication: requests on every protected router while an admin       *)
(* deactivates, reactivates and deletes users, one request at a time.      *)
(***************************************************************************)
\* the bearers: an admin, an agent, and a request without a valid token
Bearers == {"admin1", "agent1", NoUser}

AuthUserBodies == {[isActive |-> "false"], [isActive |-> "true"]}

InitAuth == EmptyStore /\ reqs = [p \in OneClient |-> Idle]

NextAuth ==
  \E p \in OneClient :
    \/ \E u \in Bearers :
         \/ \E target \in {"admin1", "agent1"}, body \in AuthUserBodies :
              Request(p, u, "PATCH /users/:id", target, body, MaxActivity)
         \/ Request(p, u, "DELETE /users/:id", "agent1", NoBody, MaxActivity)
         \/ \E body \in AccessLeadCreates :
              Request(p, u, "POST /leads", NoId, body, MaxActivity)
         \/ Request(p, u, "GET /leads/:id", 1, NoBody, MaxActivity)
         \/ \E body \in AccessCustomerCreates :
              Request(p, u, "POST /customers", NoId, body, MaxActivity)
         \/ Request(p, u, "GET /customers/:id", 1, NoBody, MaxActivity)
         \/ Request(p, u, "POST /tasks", NoId, [title |-> "Task", dueDate |-> 1], MaxActivity)
         \/ Request(p, u, "GET /tasks/:id", 1, NoBody, MaxActivity)
         \/ Request(p, u, "GET /activity/recent", NoId, NoBody, MaxActivity)
    \/ UserUpdate_findById(p)
    \/ UserUpdate_save(p)
    \/ UserDelete_findById(p)
    \/ UserDelete_findByIdAndDelete(p)
    \/ LeadCreate_findOne(p)
    \/ LeadCreate_save(p)
    \/ LeadGet(p)
    \/ CustomerCreate_findOne(p)
    \/ CustomerCreate_save(p)
    \/ CustomerGet(p)
    \/ TaskCreate(p)
    \/ TaskGet(p)
    \/ ActivityRecent(p)
    \/ ActivityCreate(p)

SpecAuth == InitAuth /\ [][NextAuth]_vars

(***************************************************************************)
(* Email conflicts: leads and customers are created, archived and have     *)
(* their email changed, one request at a time.                             *)
(***************************************************************************)
ConflictEmailBodies == {[email |-> "a@x.com"], [email |-> "A@x.com"], [email |-> "b@x.com"]}

InitConflict == EmptyStore /\ reqs = [p \in OneClient |-> Idle]

NextConflict ==
  \E p \in OneClient :
    \/ \E u \in {"admin1", "agent1"} :
         \/ \E body \in LeadCreateBodies :
              Request(p, u, "POST /leads", NoId, body, MaxActivity)
         \/ \E id \in 1..MaxLeads, body \in ConflictEmailBodies :
              Request(p, u, "PATCH /leads/:id", id, body, MaxActivity)
         \/ \E id \in 1..MaxLeads :
              Request(p, u, "DELETE /leads/:id", id, NoBody, MaxActivity)
         \/ \E body \in CustomerCreateBodies :
              Request(p, u, "POST /customers", NoId, body, MaxActivity)
         \/ \E id \in 1..MaxCustomers, body \in ConflictEmailBodies :
              Request(p, u, "PATCH /customers/:id", id, body, MaxActivity)
    \/ LeadCreate_findOne(p)
    \/ LeadCreate_save(p)
    \/ LeadUpdate_findById(p)
    \/ LeadUpdate_findOne(p)
    \/ LeadUpdate_save(p)
    \/ LeadArchive_findById(p)
    \/ LeadArchive_save(p)
    \/ CustomerCreate_findOne(p)
    \/ CustomerCreate_save(p)
    \/ CustomerUpdate_findById(p)
    \/ CustomerUpdate_findOne(p)
    \/ CustomerUpdate_save(p)
    \/ ActivityCreate(p)

SpecConflict == InitConflict /\ [][NextConflict]_vars

(***************************************************************************)
(* GET /tasks over stores of tasks of every status, past due and not: one  *)
(* list request per behaviour.                                             *)
(***************************************************************************)
StoredTasks ==
  {[NewTask([title |-> "Task", dueDate |-> k[1], priority |-> k[2], assignedTo |-> a],
            "agent1")
      EXCEPT !.status = k[3]] :
     a \in {"agent1", "agent2"},
     k \in {<<1, "High", "Open">>, <<1, "Low", "In Progress">>, <<2, "Medium", "Done">>}}

InitTaskList ==
  /\ users = SeedUsers
  /\ activity = << >>
  /\ reqs = [p \in OneClient |-> Idle]
  /\ tasks \in [1..MaxListed -> StoredTasks] /\ leads = << >> /\ customers = << >>
  /\ oid = [Lead |-> 0, Customer |-> 0, Task |-> Len(tasks)]

NextTaskList ==
  \E p \in OneClient :
    \/ \E u \in {"admin1", "agent1"}, q \in TaskQueries :
         /\ reqs[p].pc = "idle"
         /\ Request(p, u, "GET /tasks", NoId, q, 1)
    \/ TaskList(p)

SpecTaskList == InitTaskList /\ [][NextTaskList]_vars

(***************************************************************************)
(* Lead conversion with faults: an awaited store operation may reject (the *)
(* handler's catch passes the error on) and the process may stop between   *)
(* any two steps of a handler.                                             *)
(***************************************************************************)
\* StoreError, where a failed Activity write is swallowed and the success
\* response is sent
StoreError_Swallowed(p) ==
  /\ reqs[p].pc \in {"saveCustomer", "saveLead", "activity"}
  /\ Respond(p, reqs[p].status, reqs[p].msg)
  /\ UNCHANGED <<users, leads, customers, tasks, activity, oid>>

\* an awaited store operation of the request of p rejects: next(error)
StoreError(p) ==
  /\ reqs[p].pc \in {"saveCustomer", "saveLead", "activity"}
  /\ NextError(p)
  /\ UNCHANGED <<users, leads, customers, tasks, activity, oid>>

\* the process stops while the request of p is in flight: the request is
\* never answered and its remaining steps never run
Crash(p) ==
  /\ reqs[p].pc \notin {"idle", "done"}
  /\ reqs' = [reqs EXCEPT ![p] = Idle]
  /\ UNCHANGED <<users, leads, customers, tasks, activity, oid>>

InitConvert == EmptyStore /\ reqs = [p \in OneClient |-> Idle]

NextConvert ==
  \E p \in OneClient :
    \/ \E u \in {"admin1", "agent1"} :
         LeadRequest(p, u, MaxActivity, 1..MaxLeads, RaceCreateBodies, {}, {},
                     LeadConvertBodies)
    \/ LeadCreate_findOne(p)
    \/ LeadCreate_save(p)
    \/ LeadConvert_findById(p)
    \/ LeadConvert_saveCustomer(p)
    \/ LeadConvert_saveLead(p)
    \/ ActivityCreate(p)
    \/ StoreError(p)
    \/ Crash(p)

SpecConvert == InitConvert /\ [][NextConvert]_vars

(***************************************************************************)
(* Valid and invalid bodies on every create, update, convert and note      *)
(* route, one request at a time.                                           *)
(***************************************************************************)
InvalidLeadCreates ==
  {[name |-> "Jane", email |-> "a@x.com", phone |-> "5550"],
   [name |-> " ", email |-> "a@x.com", phone |-> "5550"],
   [name |-> "Jane", email |-> "nope", phone |-> "5550"],
   [name |-> "Jane", email |-> "a@x.com"]}

InvalidLeadUpdates == {[name |-> "Joan"], [name |-> " "], [status |-> "Lost"]}

InvalidConverts == {[company |-> "Acme"], [company |-> " "], NoBody}

InvalidCustomerCreates ==
  {[name |-> "Jane", company |-> c, email |-> "b@x.com", phone |-> "5550"] :
     c \in {"Acme", " "}}

InvalidCustomerUpdates == {[name |-> "Joan"], [company |-> " "], [email |-> "nope"]}

InvalidNotes == {[content |-> "memo"], [content |-> " "], NoBody}

InvalidTaskCreates == {[title |-> "Task", dueDate |-> 1], [title |-> " ", dueDate |-> 1]}

InvalidTaskUpdates == {[status |-> "Done"], [title |-> " "], [status |-> "Lost"]}

InvalidUserUpdates == {[role |-> "agent"], [role |-> "owner"], [isActive |-> "maybe"]}

InvalidProfileUpdates == {[firstName |-> "Joan"], [firstName |-> " "]}

InitInvalid == EmptyStore /\ reqs = [p \in OneClient |-> Idle]

NextInvalid ==
  \E p \in OneClient :
    \/ \E u \in {"admin1", "agent1"} :
         \/ LeadRequest(p, u, MaxActivity, {1}, InvalidLeadCreates, {},
                        InvalidLeadUpdates, InvalidConverts)
         \/ \E body \in InvalidCustomerCreates :
              Request(p, u, "POST /customers", NoId, body, MaxActivity)
         \/ \E body \in InvalidCustomerUpdates :
              Request(p, u, "PATCH /customers/:id", 1, body, MaxActivity)
         \/ \E body \in InvalidNotes :
              Request(p, u, "POST /customers/:id/notes", 1, body, MaxActivity)
         \/ \E body \in InvalidTaskCreates :
              Request(p, u, "POST /tasks", NoId, body, MaxActivity)
         \/ \E body \in InvalidTaskUpdates :
              Request(p, u, "PATCH /tasks/:id", 1, body, MaxActivity)
         \/ \E body \in InvalidUserUpdates :
              Request(p, u, "PATCH /users/:id", "agent2", body, MaxActivity)
         \/ \E body \in InvalidProfileUpdates :
              Request(p, u, "PATCH /users/profile/me", NoId, body, MaxActivity)
    \/ LeadCreate_findOne(p)
    \/ LeadCreate_save(p)
    \/ LeadUpdate_findById(p)
    \/ LeadUpdate_save(p)
    \/ LeadConvert_findById(p)
    \/ LeadConvert_saveCustomer(p)
    \/ LeadConvert_saveLead(p)
    \/ CustomerCreate_findOne(p)
    \/ CustomerCreate_save(p)
    \/ CustomerUpdate_findById(p)
    \/ CustomerUpdate_save(p)
    \/ CustomerAddNote_findById(p)
    \/ CustomerAddNote_save(p)
    \/ TaskCreate(p)
    \/ TaskUpdate_findById(p)
    \/ TaskUpdate_save(p)
    \/ UserUpdate_findById(p)
    \/ UserUpdate_save(p)
    \/ ProfileUpdate_findById(p)
    \/ ProfileUpdate_save(p)
    \/ ActivityCreate(p)

SpecInvalid == InitInvalid /\ [][NextInvalid]_vars

(***************************************************************************)
(* Every mutating route of leads, customers, tasks and users, with         *)
(* requests that succeed and requests that are refused, one at a time.     *)
(***************************************************************************)
LogLeadCreates ==
  {[name |-> "Jane", email |-> "a@x.com", phone |-> "5550"],
   [name |-> " ", email |-> "a@x.com", phone |-> "5550"]}

LogCustomerCreates ==
  {[name |-> "Jane", company |-> c, email |-> "b@x.com", phone |-> "5550"] :
     c \in {"Acme", " "}}

InitLog == EmptyStore /\ reqs = [p \in OneClient |-> Idle]

NextLog ==
  \E p \in OneClient :
    \/ \E u \in {"admin1", "agent1"} :
         \/ LeadRequest(p, u, MaxActivity, {1}, LogLeadCreates, {NoBody},
                        {[name |-> "Joan"]}, {[company |-> "Acme"]})
         \/ CustomerRequest(p, u, MaxActivity, {1}, LogCustomerCreates,
                            {[email |-> "a@x.com"]}, {[content |-> "memo"]})
         \/ TaskRequest(p, u, MaxActivity, {1}, {[title |-> "Task", dueDate |-> 1]},
                        {[status |-> "Done"]})
         \/ \E target \in {"agent2", "user4"} :
              \/ Request(p, u, "PATCH /users/:id", target, [role |-> "admin"], MaxActivity)
              \/ Request(p, u, "DELETE /users/:id", target, NoBody, MaxActivity)
         \/ Request(p, u, "PATCH /users/profile/me", NoId, [firstName |-> "Joan"],
                    MaxActivity)
    \/ LeadCreate_findOne(p)
    \/ LeadCreate_save(p)
    \/ LeadGet(p)
    \/ LeadUpdate_findById(p)
    \/ LeadUpdate_save(p)
    \/ LeadConvert_findById(p)
    \/ LeadConvert_saveCustomer(p)
    \/ LeadConvert_saveLead(p)
    \/ LeadArchive_findById(p)
    \/ LeadArchive_save(p)
    \/ CustomerStep(p)
    \/ TaskStep(p)
    \/ UserUpdate_findById(p)
    \/ UserUpdate_save(p)
    \/ UserDelete_findById(p)
    \/ UserDelete_findByIdAndDelete(p)
    \/ ProfileUpdate_findById(p)
    \/ ProfileUpdate_save(p)
    \/ ActivityCreate(p)

SpecLog == InitLog /\ [][NextLog]_vars

(***************************************************************************)
(* The mutating routes where an awaited write may reject.                  *)
(***************************************************************************)
InitLogFault == EmptyStore /\ reqs = [p \in OneClient |-> Idle]

NextLogFault ==
  \E p \in OneClient :
    \/ LeadRequest(p, "admin1", MaxActivity, {1}, AccessLeadCreates, {}, {},
                   {[company |-> "Acme"]})
    \/ Request(p, "admin1", "DELETE /leads/:id", 1, NoBody, MaxActivity)
    \/ Request(p, "admin1", "DELETE /customers/:id", 1, NoBody, MaxActivity)
    \/ Request(p, "admin1", "POST /tasks", NoId, [title |-> "Task", dueDate |-> 1],
               MaxActivity)
    \/ Request(p, "admin1", "DELETE /tasks/:id", 1, NoBody, MaxActivity)
    \/ LeadCreate_findOne(p)
    \/ LeadCreate_save(p)
    \/ LeadConvert_findById(p)
    \/ LeadConvert_saveCustomer(p)
    \/ LeadConvert_saveLead(p)
    \/ LeadArchive_findById(p)
    \/ LeadArchive_save(p)
    \/ CustomerDelete_findById(p)
    \/ CustomerDelete_findByIdAndDelete(p)
    \/ TaskCreate(p)
    \/ TaskDelete_findById(p)
    \/ TaskDelete_findByIdAndDelete(p)
    \/ ActivityCreate(p)
    \/ StoreError(p)

SpecLogFault == InitLogFault /\ [][NextLogFault]_vars

(***************************************************************************)
(* The dashboard page: fetchDashboardData over stored leads, customers and *)
(* tasks.  Nothing writes to the store while the page loads.               *)
(***************************************************************************)
\* the most leads and customers a drawn store holds
MaxDashboard == 21

\* data of GET /leads and GET /customers without a query: the first
\* DefaultLimit of the matching records, newest first
FirstNewest(M) == {i \in M : Cardinality({j \in M : j > i}) < DefaultLimit}

\* data of GET /tasks without a query: the first DefaultLimit of the
\* matching tasks by dueDate, then priority; ties fall either way
FirstDue(M) ==
  {S \in SUBSET M :
     /\ Cardinality(S) = IF Cardinality(M) < DefaultLimit THEN Cardinality(M)
                                                          ELSE DefaultLimit
     /\ \A x \in S, y \in M \ S :
          \/ tasks[x].dueDate < tasks[y].dueDate
          \/ /\ tasks[x].dueDate = tasks[y].dueDate
             /\ PriorityRank(tasks[x].priority) >= PriorityRank(tasks[y].priority)}

\* fetchDashboardData: GET /api/leads, /api/customers and /api/tasks with
\* the user's token and no query; the stats are counted over the data of
\* the three answers
fetchDashboardData(p, tokenUser) ==
  LET role == users[tokenUser].role
      leadsData == FirstNewest(Find(leads, LeadFilter(NoBody, tokenUser, role)))
      customersData == FirstNewest(Find(customers, CustomerFilter(NoBody, tokenUser, role)))
  IN
  /\ reqs[p].pc = "idle"
  /\ ActiveUser(tokenUser)
  /\ \E now \in Clock :
     \E tasksData \in FirstDue(Find(tasks, TaskFilter(NoBody, tokenUser, role, now))) :
       reqs' = [reqs EXCEPT ![p] =
         [Idle EXCEPT !.pc = "done", !.route = "dashboard", !.user = tokenUser,
                      !.role = role, !.token = tokenUser,
                      !.stats = [totalLeads |-> Cardinality(leadsData),
                                 totalCustomers |-> Cardinality(customersData),
                                 openTasks |->
                                   Cardinality({t \in tasksData : tasks[t].status # "Done"}),
                                 overdueTasks |->
                                   Cardinality({t \in tasksData :
                                     tasks[t].status # "Done" /\ tasks[t].dueDate < now})]]]
  /\ UNCHANGED <<users, leads, customers, tasks, activity, oid>>

\* the stored records differ only in what the page reads: how many there
\* are, whose they are, and the tasks' status and due date
InitDashboard ==
  /\ users = SeedUsers
  /\ activity = << >>
  /\ reqs = [p \in OneClient |-> Idle]
  /\ \E n \in 0..MaxDashboard, a \in {"agent1", "agent2"} :
       leads = [i \in 1..n |-> NewLead("Jane", "a@x.com", "5550", a)]
  /\ \E n \in {0, 1, MaxDashboard} :
       customers = [i \in 1..n |->
                      NewCustomer("Jane", "Acme", "a@x.com", "5550", << >>, "agent1", NoId)]
  /\ \E n \in 0..MaxListed : tasks \in [1..n -> StoredTasks]
  /\ oid = [Lead |-> Len(leads), Customer |-> Len(customers), Task |-> Len(tasks)]

NextDashboard ==
  \E p \in OneClient, u \in {"admin1", "agent1"} : fetchDashboardData(p, u)

SpecDashboard == InitDashboard /\ [][NextDashboard]_vars

(***************************************************************************)
(* User administration by two clients at once: only PATCH /users/:id and   *)
(* DELETE /users/:id, sent by any stored user.                             *)
(***************************************************************************)
AdminUpdateBodies ==
  {[isActive |-> "false"], [role |-> "agent"], [role |-> "admin"]}

InitAdmins == EmptyStore /\ reqs = [p \in TwoClients |-> Idle]

NextAdmins ==
  \E p \in TwoClients :
    \/ \E u \in {"admin1", "agent1"} :
         \/ \E target \in {"admin1", "agent1"}, body \in AdminUpdateBodies :
              Request(p, u, "PATCH /users/:id", target, body, MaxActivity)
         \/ \E target \in {"admin1", "agent1"} :
              Request(p, u, "DELETE /users/:id", target, NoBody, MaxActivity)
    \/ UserUpdate_findById(p)
    \/ UserUpdate_save(p)
    \/ UserDelete_findById(p)
    \/ UserDelete_findByIdAndDelete(p)
    \/ ActivityCreate(p)

SpecAdmins == InitAdmins /\ [][NextAdmins]_vars

(***************************************************************************)
(* Notes of one customer, appended by two clients at once: the handlers    *)
(* interleave between Customer.findById and customer.save().               *)
(***************************************************************************)
InitNoteRace == EmptyStore /\ reqs = [p \in TwoClients |-> Idle]

NextNoteRace ==
  \E p \in TwoClients :
    \/ \E body \in AccessCustomerCreates :
         Request(p, "admin1", "POST /customers", NoId, body, MaxNoteLog)
    \/ \E body \in {[content |-> "memo"], [content |-> "call"]} :
         Request(p, "admin1", "POST /customers/:id/notes", 1, body, MaxNoteLog)
    \/ CustomerCreate_findOne(p)
    \/ CustomerCreate_save(p)
    \/ CustomerAddNote_findById(p)
    \/ CustomerAddNote_save(p)
    \/ ActivityCreate(p)

SpecNoteRace == InitNoteRace /\ [][NextNoteRace]_vars

(***************************************************************************)
(* Properties.                                                             *)
(***************************************************************************)
\* C1: in every reachable state, under any interleaving of lead create,
\* update, archive and convert requests, no two non-archived Leads have the
\* same email.
C1_LeadEmailUnique ==
  \A i, j \in DOMAIN leads :
    (i # j /\ ~leads[i].isArchived /\ ~leads[j].isArchived)
      => leads[i].email # leads[j].email

\* C2: in every reachable state no two stored Customers have the same
\* email, whichever way they were written (created, updated, or produced by
\* converting a lead).
C2_CustomerEmailUnique ==
  \A i, j \in DOMAIN customers : customers[i].email = customers[j].email => i = j

\* the ids a list answer returns
Returned(r) == {r.data[i] : i \in 1..Len(r.data)}

\* C5: whatever query parameters an agent sends, GET /leads returns only
\* leads whose assignedAgent is the caller, GET /customers only customers
\* whose owner is the caller, and GET /tasks only tasks whose owner or
\* assignedTo is the caller.
C5_AgentListScope ==
  \A p \in DOMAIN reqs :
    LET r == reqs[p] IN
    (r.pc = "done" /\ r.status = 200 /\ r.role = "agent") =>
      /\ r.route = "GET /leads" => \A i \in Returned(r) : leads[i].assignedAgent = r.user
      /\ r.route = "GET /customers" => \A i \in Returned(r) : customers[i].owner = r.user
      /\ r.route = "GET /tasks" =>
           \A i \in Returned(r) : tasks[i].owner = r.user \/ tasks[i].assignedTo = r.user

\* C5 witness: an agent asked for another agent's leads, the store holds a
\* listable lead of that agent, and the answer returned a lead.
C5_Witness ==
  \E p \in DOMAIN reqs :
    LET r == reqs[p] IN
    /\ r.pc = "done" /\ r.route = "GET /leads" /\ r.role = "agent"
    /\ Has(r.body, "assignedAgent") /\ r.body.assignedAgent # r.user
    /\ \E i \in DOMAIN leads :
         leads[i].assignedAgent = r.body.assignedAgent /\ ~leads[i].isArchived
    /\ r.data # << >>

\* the request of slot p takes a step
Steps(p) == reqs'[p] # reqs[p]

\* the detail views and mutations of a single lead, customer or task
LeadDetailRoutes ==
  {"GET /leads/:id", "PATCH /leads/:id", "DELETE /leads/:id", "POST /leads/:id/convert"}

CustomerDetailRoutes ==
  {"GET /customers/:id", "PATCH /customers/:id", "DELETE /customers/:id",
   "POST /customers/:id/notes"}

TaskDetailRoutes == {"GET /tasks/:id", "PATCH /tasks/:id", "DELETE /tasks/:id"}

\* the stored record request r names, if any
Named(r) ==
  IF r.route \in LeadDetailRoutes THEN leads
  ELSE IF r.route \in CustomerDetailRoutes THEN customers
  ELSE tasks

\* the caller of r neither owns the record r names nor is assigned to it
Outsider(r) ==
  IF r.route \in LeadDetailRoutes THEN leads[r.id].assignedAgent # r.user
  ELSE IF r.route \in CustomerDetailRoutes THEN customers[r.id].owner # r.user
  ELSE tasks[r.id].owner # r.user /\ tasks[r.id].assignedTo # r.user

\* the body of r passes the validation chain of its route
WellFormed(r) ==
  CASE r.route = "PATCH /leads/:id" -> LeadUpdateValid(r.body)
    [] r.route = "POST /leads/:id/convert" -> LeadConvertValid(r.body)
    [] r.route = "PATCH /customers/:id" -> CustomerUpdateValid(r.body)
    [] r.route = "POST /customers/:id/notes" -> NoteValid(r.body)
    [] r.route = "PATCH /tasks/:id" -> TaskUpdateValid(r.body)
    [] OTHER -> TRUE

\* the handler of an agent's request on a single record answers 403 and
\* writes nothing when the record exists and the agent is an outsider, and
\* 404 when no record has the id; `anyBody` makes the claim for every body,
\* otherwise for the bodies that pass validation
AccessChecked(p, anyBody) ==
  LET r == reqs[p] IN
  (/\ r.pc = "handler" /\ r.role = "agent" /\ Steps(p)
   /\ r.route \in LeadDetailRoutes \cup CustomerDetailRoutes \cup TaskDetailRoutes
   /\ anyBody \/ WellFormed(r))
    => IF r.id \in DOMAIN Named(r)
         THEN Outsider(r) => /\ reqs'[p].pc = "done" /\ reqs'[p].status = 403
                             /\ store' = store /\ oid' = oid
         ELSE /\ reqs'[p].pc = "done" /\ reqs'[p].status = 404
              /\ store' = store /\ oid' = oid

NotesAppended(c) ==
  LET added(e) == e.action = "Note Added to Customer" /\ e.entityId = c
      logged == SelectSeq(activity, added)
      pending == {p \in DOMAIN reqs : reqs[p].pc = "activity" /\ added(reqs[p].log)}
      contents == [i \in 1..Len(logged) |-> logged[i].details.noteContent]
  IN IF pending = {} THEN contents
     ELSE Append(contents, reqs[CHOOSE p \in pending : TRUE].log.details.noteContent)

\* C7: after any sequence of successful note appends a Customer's notes are
\* the most recently appended min(n, 5) notes, in append order, newest last.
C7_NotesNewestFive ==
  \A c \in DOMAIN customers :
    LET a == NotesAppended(c) n == customers[c].notes IN
    /\ Len(n) = IF Len(a) < 5 THEN Len(a) ELSE 5
    /\ \A i \in 1..Len(n) : n[i].content = a[Len(a) - Len(n) + i]

\* C7 witness: a sixth note has been appended to a customer that keeps five.
C7_Witness ==
  \E c \in DOMAIN customers :
    /\ Len(NotesAppended(c)) >= 6 /\ Len(customers[c].notes) = 5
    /\ \E i, j \in 1..5 : customers[c].notes[i].content # customers[c].notes[j].content

\* C8: a task update that changes status from a non-Done value to Done sets
\* completedAt to a timestamp, and a task update that sets status to a value
\* other than Done leaves completedAt null.
C8_CompletedAt ==
  [][\A p \in DOMAIN reqs :
       LET r == reqs[p] IN
       (/\ At(p, "PATCH /tasks/:id", "save") /\ Steps(p)
        /\ r.id \in DOMAIN tasks /\ Has(r.body, "status"))
         => /\ r.id \in DOMAIN tasks' /\ tasks'[r.id].status = r.body.status
            /\ IF r.body.status = "Done"
                 THEN tasks[r.id].status # "Done" => tasks'[r.id].completedAt # NoDate
                 ELSE tasks'[r.id].completedAt = NoDate]_vars

\* C8 witness: an update has been answered with success on a task that is
\* Done and carries its completion time.
C8_Witness ==
  \E p \in DOMAIN reqs :
    /\ reqs[p].pc = "done" /\ reqs[p].route = "PATCH /tasks/:id" /\ reqs[p].status = 200
    /\ reqs[p].id \in DOMAIN tasks
    /\ tasks[reqs[p].id].status = "Done" /\ tasks[reqs[p].id].completedAt # NoDate

\* the request r of an admin would deactivate or delete the admin's own record
OnSelf(r) ==
  /\ r.role = "admin"
  /\ \/ r.route = "DELETE /users/:id" /\ r.target = r.user
     \/ /\ r.route = "PATCH /users/:id" /\ r.target = r.user
        /\ Has(r.body, "isActive") /\ r.body.isActive \in {"false", "'false'"}
     \/ /\ r.route = "PATCH /users/profile/me"
        /\ Has(r.body, "isActive") /\ r.body.isActive \in {"false", "'false'"}

\* C9: a request by an admin that would deactivate or delete that admin's
\* own User record is answered 400 and leaves the record as it was.
C9_SelfProtected ==
  [][\A p \in DOMAIN reqs :
       LET r == reqs[p] IN
       (r.pc \in {"handler", "save", "delete"} /\ OnSelf(r) /\ Steps(p))
         => /\ r.user \in DOMAIN users' /\ users'[r.user] = users[r.user]
            /\ reqs'[p].pc = "done" => reqs'[p].status = 400]_vars

\* the convert request of slot p meets the stated preconditions: the lead
\* exists, the caller has scope access, the status is New or In Progress and
\* the company is valid
ConvertPre(p) ==
  LET r == reqs[p] IN
  /\ At(p, "POST /leads/:id/convert", "handler")
  /\ LeadConvertValid(r.body)
  /\ r.id \in DOMAIN leads
  /\ ~NotOwn(r, leads[r.id].assignedAgent)
  /\ leads[r.id].status \in {"New", "In Progress"}

\* the step of slot p adds exactly one Customer, built from the lead and the
\* caller, and leaves every other Customer alone
ConvertAddsCustomer(p) ==
  LET r == reqs[p] IN
  \E c \in DOMAIN customers' \ DOMAIN customers :
    /\ DOMAIN customers' = DOMAIN customers \cup {c}
    /\ \A d \in DOMAIN customers : customers'[d] = customers[d]
    /\ customers'[c].name = leads[r.id].name
    /\ customers'[c].email = leads[r.id].email
    /\ customers'[c].phone = leads[r.id].phone
    /\ customers'[c].owner = r.user
    /\ customers'[c].convertedFromLead = r.id
    /\ reqs'[p].pc = "saveLead" /\ reqs'[p].aux = c

\* the step of slot p closes the lead as won and links it to the Customer
\* the request created
ConvertClosesLead(p) ==
  LET r == reqs[p] IN
  /\ r.aux \in DOMAIN customers /\ customers[r.aux].convertedFromLead = r.id
  /\ leads'[r.id].status = "Closed Won"
  /\ leads'[r.id].convertedToCustomer = r.aux
  /\ leads'[r.id].convertedAt # NoDate
  /\ reqs'[p].pc = "activity"

\* a convert request of slot p whose preconditions hold goes through its
\* writes; `everyDeals` makes the claim for any deals array, otherwise for
\* deals that pass the Customer schema
ConvertWorks(p, everyDeals) ==
  LET r == reqs[p] IN
  /\ (ConvertPre(p) /\ Steps(p)) => reqs'[p].pc = "saveCustomer" /\ store' = store
  /\ (At(p, "POST /leads/:id/convert", "saveCustomer") /\ Steps(p)
        /\ (everyDeals \/ ~Has(r.body, "deals") \/ DealsValid(r.body.deals)))
       => ConvertAddsCustomer(p) /\ leads' = leads
  /\ (At(p, "POST /leads/:id/convert", "saveLead") /\ Steps(p))
       => ConvertClosesLead(p) /\ customers' = customers

ConvertRefused(p, anyCaller) ==
  LET r == reqs[p] IN
  (/\ At(p, "POST /leads/:id/convert", "handler") /\ Steps(p)
   /\ r.id \in DOMAIN leads
   /\ leads[r.id].status \in {"Closed Won", "Closed Lost"})
    => /\ reqs'[p].pc = "done"
       /\ reqs'[p].status =
            IF \/ anyCaller
               \/ r.role # "agent" \/ leads[r.id].assignedAgent = r.user
               \/ ~LeadConvertValid(r.body)
              THEN 400 ELSE 403
       /\ store' = store /\ oid' = oid

\* C4 as stated: converting a Lead whose status is Closed Won or Closed Lost
\* is rejected with 400 and writes nothing: no Customer, the Lead unchanged,
\* no Activity entry.
C4_ConvertTerminalAsStated == [][\A p \in DOMAIN reqs : ConvertRefused(p, TRUE)]_vars

\* C4, amended: such a conversion writes nothing and is rejected with 400
\* when the caller has scope access to the Lead (or the body fails
\* validation), with 403 when the caller is an agent the Lead is not
\* assigned to.
C4_ConvertTerminal == [][\A p \in DOMAIN reqs : ConvertRefused(p, FALSE)]_vars

\* C4 witness: a conversion of a closed Lead has been refused with 400.
C4_Witness ==
  \E p \in DOMAIN reqs :
    /\ reqs[p].route = "POST /leads/:id/convert" /\ reqs[p].pc = "done"
    /\ reqs[p].status = 400 /\ reqs[p].msg = "Cannot convert closed lead"
    /\ leads[reqs[p].id].status \in {"Closed Won", "Closed Lost"}

\* C10: once a Lead is archived, GET /leads/:id, PATCH /leads/:id and
\* POST /leads/:id/convert on it answer 404 and write nothing.
C10_ArchivedIsGone ==
  [][\A p \in DOMAIN reqs :
       LET r == reqs[p] IN
       (/\ r.pc = "handler" /\ Steps(p)
        /\ r.route \in {"GET /leads/:id", "PATCH /leads/:id", "POST /leads/:id/convert"}
        /\ r.id \in DOMAIN leads /\ leads[r.id].isArchived)
         => /\ reqs'[p].pc = "done" /\ reqs'[p].status = 404
            /\ store' = store]_vars

\* the log records that lead i was archived
WasArchived(i) ==
  \E k \in 1..Len(activity) :
    activity[k].action = "Lead Archived" /\ activity[k].entityId = i

\* C11: once a Lead is archived, no GET /leads response contains it,
\* whatever the filters (status, search, assignedAgent, page, limit).
C11_ArchivedNeverListed ==
  [][\A p \in DOMAIN reqs :
       (At(p, "GET /leads", "handler") /\ Steps(p))
         => \A k \in 1..Len(reqs'[p].data) : ~WasArchived(reqs'[p].data[k])]_vars

\* a GET /leads response holds no lead that is archived when it is listed
C11_ListOmitsArchivedNow ==
  [][\A p \in DOMAIN reqs :
       (At(p, "GET /leads", "handler") /\ Steps(p))
         => \A k \in 1..Len(reqs'[p].data) : ~leads[reqs'[p].data[k]].isArchived]_vars

\* the register request of slot p bears the token of an active admin, has
\* valid fields and an email no User holds
RegisterPre(p) ==
  LET r == reqs[p] IN
  /\ At(p, "POST /auth/register", "handler")
  /\ r.token \in DOMAIN users /\ users[r.token].isActive /\ users[r.token].role = "admin"
  /\ RegisterValid(r.body)
  /\ UserFindOneByEmail(normalizeEmail(r.body.email)) = {}

\* C12: a POST /auth/register bearing the valid access token of an active
\* admin, with valid fields and an unused email, creates the User and answers
\* 201; the same request from an agent creates nothing.
C12_AdminRegisters ==
  [][\A p \in DOMAIN reqs :
       LET r == reqs[p] IN
       /\ (RegisterPre(p) /\ Steps(p)) => reqs'[p].pc = "save" /\ users' = users
       /\ (At(p, "POST /auth/register", "save") /\ Steps(p))
            => /\ DOMAIN users' # DOMAIN users
               /\ reqs'[p].status = 201
       /\ (r.route = "POST /auth/register" /\ Steps(p)
             /\ r.token \in DOMAIN users /\ users[r.token].role = "agent")
            => users' = users]_vars

\* C13: on every route under /users, /leads, /customers, /tasks and
\* /activity the handler runs, and a store write happens, only for a request
\* whose token resolves to an existing User that is active when checked;
\* every other request ends with 401 and writes nothing, so a request bearing
\* the token of a deactivated or deleted user is rejected.
C13_AuthGate ==
  [][/\ \A p \in DOMAIN reqs :
          (reqs[p].pc \in {"idle", "done"} /\ Steps(p))
            => IF /\ reqs'[p].token \in DOMAIN users
                  /\ users[reqs'[p].token].isActive
                 THEN /\ reqs'[p].pc = "handler"
                      /\ reqs'[p].user = reqs'[p].token
                      /\ reqs'[p].role = users[reqs'[p].token].role
                 ELSE /\ reqs'[p].pc = "done" /\ reqs'[p].status = 401
                      /\ store' = store
     /\ store' # store =>
          \E p \in DOMAIN reqs :
            /\ reqs[p].pc \notin {"idle", "done"} /\ Steps(p)
            /\ reqs[p].user # NoUser /\ reqs[p].user = reqs[p].token]_vars

\* C13 witness: a request bearing the token of a user that has been
\* deactivated or deleted was answered 401.
C13_Witness ==
  \E p \in DOMAIN reqs :
    /\ reqs[p].pc = "done" /\ reqs[p].status = 401 /\ reqs[p].token # NoUser
    /\ reqs[p].token \in DOMAIN users => ~users[reqs[p].token].isActive
    /\ \E k \in 1..Len(activity) : activity[k].action \in {"User Updated", "User Deleted"}

\* the other non-archived leads, and the other customers, that hold an email
LeadsHolding(email, self) ==
  {i \in DOMAIN leads : i # self /\ ~leads[i].isArchived /\ leads[i].email = email}

CustomersHolding(email, self) ==
  {i \in DOMAIN customers : i # self /\ customers[i].email = email}

\* the request of p is refused with the conflict message, no write made and
\* no Activity entry pending
Conflict(p, msg) ==
  /\ reqs'[p].pc = "done" /\ reqs'[p].status = 400 /\ reqs'[p].msg = msg
  /\ reqs'[p].log = NoLog
  /\ store' = store /\ oid' = oid

\* a valid create of p on the route whose email is held already
CreateOfHeld(p, route, valid, holding) ==
  /\ At(p, route, "handler") /\ Steps(p)
  /\ requireAgentOrAdmin(reqs[p]) /\ valid
  /\ holding # {}

\* a valid PATCH of p on the route, by a caller who may edit the record,
\* that changes the email to one held by another record
UpdateToHeld(p, route, coll, valid, owner, holding) ==
  /\ reqs[p].route = route /\ reqs[p].pc \in {"handler", "findOne"} /\ Steps(p)
  /\ requireAgentOrAdmin(reqs[p]) /\ Has(reqs[p].body, "email") /\ valid
  /\ reqs[p].id \in DOMAIN coll
  /\ ~(reqs[p].role = "agent" /\ owner # reqs[p].user)
  /\ normalizeEmail(reqs[p].body.email) # coll[reqs[p].id].email
  /\ holding # {}

\* C14: a valid POST /leads whose email a non-archived Lead holds, and a
\* valid POST /customers whose email a Customer holds, is refused with the
\* conflict message, creating no record and no Activity entry; a PATCH that
\* changes the email to one another such record holds is refused the same
\* way and leaves the record as it was.
C14_EmailConflict ==
  [][\A p \in DOMAIN reqs :
       LET r == reqs[p] IN
       /\ CreateOfHeld(p, "POST /leads", LeadCreateValid(r.body),
                       LeadsHolding(normalizeEmail(r.body.email), NoId))
            => Conflict(p, "Lead with this email already exists")
       /\ CreateOfHeld(p, "POST /customers", CustomerCreateValid(r.body),
                       CustomersHolding(normalizeEmail(r.body.email), NoId))
            => Conflict(p, "Customer with this email already exists")
       /\ UpdateToHeld(p, "PATCH /leads/:id", leads, LeadUpdateValid(r.body),
                       leads[r.id].assignedAgent,
                       LeadsHolding(normalizeEmail(r.body.email), r.id))
            => \/ r.pc = "handler" /\ reqs'[p].pc = "findOne" /\ store' = store
               \/ r.pc = "findOne" /\ Conflict(p, "Lead with this email already exists")
       /\ UpdateToHeld(p, "PATCH /customers/:id", customers, CustomerUpdateValid(r.body),
                       customers[r.id].owner,
                       CustomersHolding(normalizeEmail(r.body.email), r.id))
            => \/ r.pc = "handler" /\ reqs'[p].pc = "findOne" /\ store' = store
               \/ r.pc = "findOne" /\ Conflict(p, "Customer with this email already exists")
    ]_vars

\* C14 witness: with two non-archived leads of different emails stored, a
\* PATCH on one of them was refused with the conflict message.
C14_Witness ==
  \E p \in DOMAIN reqs :
    /\ reqs[p].pc = "done" /\ reqs[p].status = 400
    /\ reqs[p].route = "PATCH /leads/:id"
    /\ reqs[p].msg = "Lead with this email already exists"
    /\ reqs[p].id \in DOMAIN leads
    /\ \E j \in DOMAIN leads :
         /\ j # reqs[p].id /\ leads[j].email # leads[reqs[p].id].email
         /\ ~leads[j].isArchived /\ ~leads[reqs[p].id].isArchived

\* C15: every 200 answer of GET /tasks to a query with status holds only
\* tasks of exactly that status, to a query with priority only tasks of
\* exactly that priority, whatever the caller and the other parameters; it
\* is ordered by dueDate ascending and no longer than the page's limit.
C15_TaskListFilters ==
  \A p \in DOMAIN reqs :
    LET r == reqs[p] IN
    (r.pc = "done" /\ r.route = "GET /tasks" /\ r.status = 200)
      => /\ Has(r.body, "status")
              => \A k \in 1..Len(r.data) : tasks[r.data[k]].status = r.body.status
         /\ Has(r.body, "priority")
              => \A k \in 1..Len(r.data) : tasks[r.data[k]].priority = r.body.priority
         /\ \A j, k \in 1..Len(r.data) :
              j < k => tasks[r.data[j]].dueDate <= tasks[r.data[k]].dueDate
         /\ Len(r.data) <= LimitOf(r.body)

\* C16: in every reachable state, over any sequence of task create and
\* update requests (updates without a status field included), a Task's
\* completedAt is set exactly when its status is Done.
C16_CompletedIffDone ==
  \A t \in DOMAIN tasks : (tasks[t].completedAt # NoDate) <=> (tasks[t].status = "Done")

\* the lead status transitions New -> In Progress -> {Closed Won, Closed Lost}
LeadStatusEdge(from, to) ==
  \/ from = "New" /\ to = "In Progress"
  \/ from = "In Progress" /\ to \in {"Closed Won", "Closed Lost"}

\* C17: over lead update and convert requests a Lead's status changes only
\* along New -> In Progress -> {Closed Won, Closed Lost}, and a Lead that is
\* Closed Won or Closed Lost never changes status again.
C17_StatusOrder ==
  [][\A i \in DOMAIN leads :
       (i \in DOMAIN leads' /\ leads'[i].status # leads[i].status)
         => LeadStatusEdge(leads[i].status, leads'[i].status)]_vars

\* the Activity entry this step appends, if it is one of a conversion
ConversionLogged ==
  /\ Len(activity') = Len(activity) + 1
  /\ activity'[Len(activity')].action = "Lead Converted to Customer"

\* C18: a conversion writes the Customer before it updates the Lead and
\* appends its Activity entry last: a step that sets a Lead's
\* convertedToCustomer sets it to a Customer already stored for that Lead,
\* the entry is appended only for a Lead already linked to that Customer,
\* and when the Customer write fails the Lead stays as it was and no entry
\* follows; this holds with store errors and process stops at any step.
C18_ConvertOrder ==
  [][/\ \A i \in DOMAIN leads :
          leads'[i].convertedToCustomer # leads[i].convertedToCustomer
            => /\ leads'[i].convertedToCustomer \in DOMAIN customers
               /\ customers[leads'[i].convertedToCustomer].convertedFromLead = i
               /\ activity' = activity
     /\ ConversionLogged
          => LET e == activity'[Len(activity')] IN
             /\ e.entityId \in DOMAIN leads
             /\ leads[e.entityId].convertedToCustomer = e.details.customerId
             /\ e.details.customerId \in DOMAIN customers
             /\ leads' = leads /\ customers' = customers
     /\ \A p \in DOMAIN reqs :
          (At(p, "POST /leads/:id/convert", "saveCustomer") /\ Steps(p)
             /\ customers' = customers)
            => /\ leads' = leads /\ activity' = activity
               /\ reqs'[p].pc \in {"idle", "done"} /\ reqs'[p].log = NoLog
    ]_vars

\* C18 witness: a conversion stopped after its Customer write (the Customer
\* of a Lead that is still unlinked is stored), and another conversion ran
\* to its Activity entry.
C18_Witness ==
  /\ \A p \in DOMAIN reqs : reqs[p].pc \in {"idle", "done"}
  /\ \E c \in DOMAIN customers :
       /\ customers[c].convertedFromLead \in DOMAIN leads
       /\ leads[customers[c].convertedFromLead].convertedToCustomer = NoId
  /\ \E i \in DOMAIN leads :
       /\ leads[i].convertedToCustomer \in DOMAIN customers
       /\ \E k \in 1..Len(activity) :
            /\ activity[k].action = "Lead Converted to Customer"
            /\ activity[k].entityId = i

\* the fields a PATCH body names; a Task's completedAt is derived from
\* status and counts as named when the body names status
NamedFields(r) ==
  DOMAIN r.body \cup
    (IF r.route = "PATCH /tasks/:id" /\ Has(r.body, "status") THEN {"completedAt"} ELSE {})

\* the save step of p on the route succeeded on record `key` of `coll`:
\* only the named fields of that record changed in `coll`
OnlyNamedChange(p, route, key, coll, collAfter) ==
  (reqs[p].route = route /\ reqs[p].pc = "save" /\ Steps(p) /\ reqs'[p].pc = "activity")
    => /\ key \in DOMAIN coll /\ DOMAIN collAfter = DOMAIN coll
       /\ \A j \in DOMAIN coll : \A f \in DOMAIN coll[j] :
            (j # key \/ f \notin NamedFields(reqs[p])) => collAfter[j][f] = coll[j][f]

\* C19: a successful PATCH on a Lead, Customer, Task or User changes only
\* the fields its body names (a Task's completedAt going with a named
\* status): every other field of the record, every other record of the
\* collection and every other collection stay as they were.
C19_PatchFrame ==
  [][\A p \in DOMAIN reqs :
       LET r == reqs[p] IN
       /\ OnlyNamedChange(p, "PATCH /leads/:id", r.id, leads, leads')
       /\ OnlyNamedChange(p, "PATCH /customers/:id", r.id, customers, customers')
       /\ OnlyNamedChange(p, "PATCH /tasks/:id", r.id, tasks, tasks')
       /\ OnlyNamedChange(p, "PATCH /users/:id", r.target, users, users')
       /\ (r.pc = "save" /\ Steps(p)
             /\ r.route \in {"PATCH /leads/:id", "PATCH /customers/:id",
                              "PATCH /tasks/:id", "PATCH /users/:id"}) =>
            /\ r.route # "PATCH /leads/:id" => leads' = leads
            /\ r.route # "PATCH /customers/:id" => customers' = customers
            /\ r.route # "PATCH /tasks/:id" => tasks' = tasks
            /\ r.route # "PATCH /users/:id" => users' = users
    ]_vars

\* the body of request r fails the validation chain of its route (for a
\* note: the content is missing or blank)
FailsValidation(r) ==
  CASE r.route = "POST /leads" -> ~LeadCreateValid(r.body)
    [] r.route = "PATCH /leads/:id" -> ~LeadUpdateValid(r.body)
    [] r.route = "POST /leads/:id/convert" -> ~LeadConvertValid(r.body)
    [] r.route = "POST /customers" -> ~CustomerCreateValid(r.body)
    [] r.route = "PATCH /customers/:id" -> ~CustomerUpdateValid(r.body)
    [] r.route = "POST /customers/:id/notes" ->
         ~Has(r.body, "content") \/ trim(r.body.content) = ""
    [] r.route = "POST /tasks" -> ~TaskCreateValid(r.body)
    [] r.route = "PATCH /tasks/:id" -> ~TaskUpdateValid(r.body)
    [] r.route = "PATCH /users/:id" -> ~UserUpdateValid(r.body)
    [] r.route = "PATCH /users/profile/me" -> ~ProfileUpdateValid(r.body)
    [] OTHER -> FALSE

\* C20: a create, update, convert or note request whose body fails
\* validation is answered 400 with the errors list and writes nothing: no
\* collection changes, the Activity log included, and no entry is pending.
C20_InvalidWritesNothing ==
  [][\A p \in DOMAIN reqs :
       LET r == reqs[p] IN
       /\ (/\ r.pc = "handler" /\ Steps(p) /\ FailsValidation(r)
           /\ r.route = "PATCH /users/:id" => r.role = "admin")
            => /\ reqs'[p].pc = "done" /\ reqs'[p].status = 400
               /\ reqs'[p].msg = "errors" /\ reqs'[p].log = NoLog
               /\ store' = store /\ oid' = oid
       /\ (Steps(p) /\ reqs'[p].pc = "done" /\ reqs'[p].status = 400
             /\ reqs'[p].msg = "errors")
            => store' = store /\ oid' = oid /\ r.pc = "handler"
    ]_vars

\* C20 witness: a blank note on a stored customer was answered 400 with the
\* errors list while the log already holds entries.
C20_Witness ==
  \E p \in DOMAIN reqs :
    /\ reqs[p].pc = "done" /\ reqs[p].route = "POST /customers/:id/notes"
    /\ reqs[p].status = 400 /\ reqs[p].msg = "errors"
    /\ reqs[p].id \in DOMAIN customers
    /\ Len(activity) > 0

\* the routes that create, update, archive, delete, convert or append a note
MutatingRoutes ==
  {"POST /leads", "PATCH /leads/:id", "DELETE /leads/:id", "POST /leads/:id/convert",
   "POST /customers", "PATCH /customers/:id", "POST /customers/:id/notes",
   "DELETE /customers/:id", "POST /tasks", "PATCH /tasks/:id", "DELETE /tasks/:id",
   "PATCH /users/:id", "DELETE /users/:id", "PATCH /users/profile/me"}

\* the kind and the id of the record the request r affects
AffectedType(r) ==
  IF r.route \in {"POST /leads"} \cup LeadDetailRoutes THEN "Lead"
  ELSE IF r.route \in {"POST /customers"} \cup CustomerDetailRoutes THEN "Customer"
  ELSE IF r.route \in {"POST /tasks"} \cup TaskDetailRoutes THEN "Task"
  ELSE "User"

AffectedId(r) ==
  IF r.route \in {"POST /leads", "POST /customers", "POST /tasks"} THEN r.aux
  ELSE IF r.route \in {"PATCH /users/:id", "DELETE /users/:id"} THEN r.target
  ELSE IF r.route = "PATCH /users/profile/me" THEN r.user
  ELSE r.id

\* the request of p is answered in this step, with one of the statuses
AnsweredWith(p, statuses) ==
  /\ Steps(p) /\ reqs[p].pc \notin {"idle", "done"}
  /\ reqs'[p].pc = "done" /\ reqs'[p].status \in statuses

\* this step appends exactly the entry e, where e names the caller of r
\* and the record r affects
AppendsEntryOf(r) ==
  /\ Len(activity') = Len(activity) + 1
  /\ SubSeq(activity', 1, Len(activity)) = activity
  /\ LET e == activity'[Len(activity')] IN
       /\ e.user = r.user /\ r.user # NoUser
       /\ e.entityType = AffectedType(r)
       /\ e.entityId = AffectedId(r)
       /\ r.route = "POST /leads/:id/convert"
            => /\ e.action = "Lead Converted to Customer"
               /\ e.details.customerId = r.aux
               /\ r.aux \in DOMAIN customers
               /\ customers[r.aux].convertedFromLead = r.id

\* C21: a request on a mutating route of leads, customers, tasks and users
\* that is answered with success appends exactly one Activity entry, whose
\* user is the caller and whose entityType and entityId name the affected
\* record (for a conversion: action 'Lead Converted to Customer', the Lead
\* as entity and the new Customer in details.customerId); the log changes
\* in no other step, so a request answered 400, 403 or 404 appends none.
C21_OneEntryPerSuccess ==
  [][/\ \A p \in DOMAIN reqs :
          /\ (AnsweredWith(p, {200, 201}) /\ reqs[p].route \in MutatingRoutes)
               => AppendsEntryOf(reqs[p])
          /\ AnsweredWith(p, {400, 403, 404})
               => activity' = activity /\ reqs[p].pc # "activity"
     /\ activity' # activity
          => \E p \in DOMAIN reqs :
               AnsweredWith(p, {200, 201}) /\ reqs[p].route \in MutatingRoutes
    ]_vars

\* C21 witness: a conversion was answered with success and the newest
\* entry of the log is its 'Lead Converted to Customer' entry.
C21_Witness ==
  \E p \in DOMAIN reqs :
    /\ reqs[p].pc = "done" /\ reqs[p].status = 200
    /\ reqs[p].route = "POST /leads/:id/convert"
    /\ Len(activity) >= 2
    /\ activity[Len(activity)].action = "Lead Converted to Customer"
    /\ activity[Len(activity)].entityId = reqs[p].id
    /\ activity[Len(activity)].details.customerId \in DOMAIN customers

\* C22: the Activity log only grows: every step keeps every existing entry,
\* in its place and with every field, also when the Lead, Customer, Task or
\* User an entry references is archived or deleted.
C22_LogAppendOnly ==
  [][/\ Len(activity') >= Len(activity)
     /\ \A k \in 1..Len(activity) : activity'[k] = activity[k]]_vars

\* C22 witness: the log holds the entries of a customer that has been
\* deleted since.
C22_Witness ==
  \E k \in 1..Len(activity) :
    /\ activity[k].action = "Customer Created"
    /\ activity[k].entityId \notin DOMAIN customers
    /\ activity[Len(activity)].action = "Customer Deleted"

\* C23: when the Activity write of a request fails after its primary write,
\* the request is answered as failed, never with success, and the step
\* leaves leads, customers, tasks and users as the primary write left them.
C23_LogFailureKeepsWrite ==
  [][\A p \in DOMAIN reqs :
       (reqs[p].pc = "activity" /\ Steps(p) /\ activity' = activity)
         => /\ reqs'[p].pc = "done" /\ reqs'[p].status >= 500
            /\ <<users, leads, customers, tasks>>' = <<users, leads, customers, tasks>>
    ]_vars

\* C23 witness: a DELETE /customers/:id was answered as failed, the
\* customer a conversion had stored is gone, and no 'Customer Deleted'
\* entry is in the log.
C23_Witness ==
  \E p \in DOMAIN reqs :
    /\ reqs[p].pc = "done" /\ reqs[p].route = "DELETE /customers/:id"
    /\ reqs[p].status = 500
    /\ reqs[p].id \notin DOMAIN customers /\ oid.Customer >= reqs[p].id
    /\ \A k \in 1..Len(activity) : activity[k].action # "Customer Deleted"

\* the records the list request r matches, and the collection it reads
ListMatches(r) ==
  IF r.route = "GET /leads" THEN Find(leads, LeadFilter(r.body, r.user, r.role))
  ELSE IF r.route = "GET /customers"
    THEN Find(customers, CustomerFilter(r.body, r.user, r.role))
  ELSE UNION {Find(tasks, TaskFilter(r.body, r.user, r.role, now)) : now \in Clock}

\* record x comes strictly before record y in the sort order of r's route
SortsBefore(r, x, y) ==
  IF r.route = "GET /tasks"
    THEN \/ tasks[x].dueDate < tasks[y].dueDate
         \/ /\ tasks[x].dueDate = tasks[y].dueDate
            /\ PriorityRank(tasks[x].priority) > PriorityRank(tasks[y].priority)
    ELSE x > y

\* the least of two numbers, and the number that is not below zero
Min2(a, b) == IF a < b THEN a ELSE b

Positive(a) == IF a < 0 THEN 0 ELSE a

C25_DashboardCounts ==
  \A p \in DOMAIN reqs :
    LET r == reqs[p]
        scopedTasks == UNION {Find(tasks, TaskFilter(NoBody, r.user, r.role, now)) :
                                now \in Clock}
    IN
    (r.pc = "done" /\ r.route = "dashboard")
      => /\ r.stats.totalLeads =
              Cardinality(Find(leads, LeadFilter(NoBody, r.user, r.role)))
         /\ r.stats.totalCustomers =
              Cardinality(Find(customers, CustomerFilter(NoBody, r.user, r.role)))
         /\ r.stats.openTasks =
              Cardinality({t \in scopedTasks : tasks[t].status # "Done"})
         /\ \E now \in Clock :
              r.stats.overdueTasks =
                Cardinality({t \in scopedTasks :
                               tasks[t].status # "Done" /\ tasks[t].dueDate < now})

\* C26: in every reachable state, under any interleaving of convert and
\* update requests (two concurrent converts of one Lead included), at most
\* one Customer has convertedFromLead equal to a given Lead.
C26_OneCustomerPerLead ==
  \A c, d \in DOMAIN customers :
    (customers[c].convertedFromLead # NoId
       /\ customers[c].convertedFromLead = customers[d].convertedFromLead)
      => c = d

\* C27: no step of a request made by an agent, a PATCH /users/profile/me
\* with any body included, changes a User's role or isActive flag (they
\* change only through an admin's PATCH /users/:id).
C27_AgentsChangeNoRole ==
  [][\A u \in DOMAIN users :
       (u \in DOMAIN users'
          /\ (users'[u].role # users[u].role \/ users'[u].isActive # users[u].isActive))
         => \E p \in DOMAIN reqs : Steps(p) /\ reqs[p].role # "agent"]_vars


\* C28: every reachable state of user update and user delete requests by
\* admins, in any interleaving, holds at least one User with role admin and
\* isActive true.
C28_AnActiveAdminRemains ==
  \E u \in DOMAIN users : users[u].role = "admin" /\ users[u].isActive


\* C29: no step of a request made by an agent changes a stored Lead's
\* assignedAgent, a stored Customer's owner or a stored Task's owner to a
\* different user; only an admin's request can.
C29_AgentsChangeNoOwner ==
  [][(\/ \E i \in DOMAIN leads \cap DOMAIN leads' :
           leads'[i].assignedAgent # leads[i].assignedAgent
      \/ \E i \in DOMAIN customers \cap DOMAIN customers' :
           customers'[i].owner # customers[i].owner
      \/ \E i \in DOMAIN tasks \cap DOMAIN tasks' :
           tasks'[i].owner # tasks[i].owner)
       => \E p \in DOMAIN reqs : Steps(p) /\ reqs[p].role # "agent"]_vars


====
